---- MODULE Spec2Model ----
(***************************************************************************)
(* Model of the control-panel service registry: the JSON primary store,    *)
(* its timestamped backups, the per-service environment mirror files and   *)
(* the operations of utils/config.py, utils/service.py and the edit,       *)
(* add-range, stop, restart-all, enable, disable and restore commands of   *)
(* control_panel/cli.py.                                                   *)
(*                                                                         *)
(* Text is modelled as sequences of one-character strings, so that         *)
(* str(port), int(value), line.strip() and line.split("=", 1) are computed *)
(* as Python computes them.  A Python dict whose iteration order reaches a *)
(* file (the env map) is a sequence of <<key, value>> pairs in insertion   *)
(* order.  The services and port_ranges maps are functions on the set of   *)
(* keys present.  The JSON document is held as the value json.load returns *)
(* for it; json_dump and json_load give the document json.dump writes for  *)
(* a registry and the value json.load reads from it.                       *)
(***************************************************************************)
EXTENDS Integers, Sequences, FiniteSets, TLC

VARIABLES
    store,        \* CONFIG_FILE: [state, data]
    backups,      \* BACKUP_DIR: timestamp -> copied document
    envFiles,     \* ENV_DIR: service name -> text of <name>.env
    clock,        \* datetime.now() at second resolution
    PACKAGE_MODE, \* which import branch of cli.py was taken
    pc,           \* position inside a save_config that runs step by step
    saving,       \* the save in progress: its argument, the pre-save store, the backup name
    nops,         \* number of registry operations run so far
    reg,          \* the register_service calls in progress when two processes run at once
    last          \* the last completed operation: name, arguments, result, state before it

vars == <<store, backups, envFiles, clock, PACKAGE_MODE, pc, saving, nops, reg, last>>

\* ------------------------------------------------------------------ bounds

MaxClock == 1

MaxOps == 2

MaxSpan == 3

\* ------------------------------------------------------------------ text

Digit == <<"0", "1", "2", "3", "4", "5", "6", "7", "8", "9">>

Whitespace == {" ", "\n", "\t", "\r"}

RECURSIVE str(_)
str(n) ==
    IF n < 10 THEN <<Digit[n + 1]>> ELSE str(n \div 10) \o <<Digit[(n % 10) + 1]>>

DigitValue(c) == CHOOSE d \in 0..9 : Digit[d + 1] = c

IsDigits(s) == Len(s) > 0 /\ \A i \in 1..Len(s) : \E d \in 1..10 : Digit[d] = s[i]

\* int(value) of a string of decimal digits; any other text raises ValueError
RECURSIVE int(_)
int(s) ==
    IF Len(s) = 1 THEN DigitValue(s[1])
    ELSE 10 * int(SubSeq(s, 1, Len(s) - 1)) + DigitValue(s[Len(s)])

RECURSIVE lstrip(_)
lstrip(s) == IF s # <<>> /\ Head(s) \in Whitespace THEN lstrip(Tail(s)) ELSE s

RECURSIVE rstrip(_)
rstrip(s) ==
    IF s # <<>> /\ s[Len(s)] \in Whitespace THEN rstrip(SubSeq(s, 1, Len(s) - 1)) ELSE s

strip(s) == rstrip(lstrip(s))

HasEq(s) == \E i \in 1..Len(s) : s[i] = "="

FirstEq(s) == CHOOSE i \in 1..Len(s) : s[i] = "=" /\ \A j \in 1..(i - 1) : s[j] # "="

\* s.split("=", 1) of a string that contains "="
split1(s) == <<SubSeq(s, 1, FirstEq(s) - 1), SubSeq(s, FirstEq(s) + 1, Len(s))>>

\* the lines a text file iterates over ("for line in f"), each with its newline
RECURSIVE readlines(_)
readlines(text) ==
    IF text = <<>> THEN <<>>
    ELSE IF \E i \in 1..Len(text) : text[i] = "\n"
         THEN LET i == CHOOSE k \in 1..Len(text) :
                          text[k] = "\n" /\ \A j \in 1..(k - 1) : text[j] # "\n"
              IN <<SubSeq(text, 1, i)>> \o readlines(SubSeq(text, i + 1, Len(text)))
         ELSE <<text>>

\* f"{key}={value}\n"
EnvLine(key, value) == key \o <<"=">> \o value \o <<"\n">>

\* ------------------------------------------------------------------ dict

DictKeys(d) == {d[i][1] : i \in 1..Len(d)}

DictHas(d, k) == k \in DictKeys(d)

DictGet(d, k) == d[CHOOSE i \in 1..Len(d) : d[i][1] = k][2]

\* d[k] = v: an existing key keeps its position, a new key goes last
DictSet(d, k, v) ==
    IF DictHas(d, k)
    THEN [i \in 1..Len(d) |-> IF d[i][1] = k THEN <<k, v>> ELSE d[i]]
    ELSE Append(d, <<k, v>>)

\* del d[k]
DictDel(d, k) == SelectSeq(d, LAMBDA kv : kv[1] # k)

\* the mapping, order forgotten
DictItems(d) == {d[i] : i \in 1..Len(d)}

\* ------------------------------------------------------------------ values

K_COMMAND == <<"C", "O", "M", "M", "A", "N", "D">>

K_WORKING_DIR == <<"W", "O", "R", "K", "I", "N", "G", "_", "D", "I", "R">>

K_PORT == <<"P", "O", "R", "T">>

\* str(Path.home())
Home == <<"/", "h">>

\* the default working directory of recover_from_env_files
RecoverDefaultDir ==
    <<"/", "h", "o", "m", "e", "/", "s", "i", "m", "o", "n", "s", "a", "y", "s">>

DefaultStart == 8000

DefaultEnd == 9000

NoServices == [n \in {} |-> 0]

DefaultConfig ==
    [services |-> NoServices,
     port_ranges |-> [r \in {"default"} |-> [start |-> DefaultStart, end |-> DefaultEnd]]]

\* the data field of a document that is missing, does not parse or is no JSON object
NoData == [services |-> NoServices, port_ranges |-> NoServices]

MissingFile == [state |-> "missing", data |-> NoData]

BadJson == [state |-> "badjson", data |-> NoData]

\* a document that parses as JSON but is no object: [] or null
NotAnObject == [state |-> "notdict", data |-> NoData]

OkFile(config) == [state |-> "ok", data |-> config]

\* JSON values as json.dump writes them: a number is its decimal text, a string
\* its characters, a boolean the word true or false
JNumber(n) == [t |-> "number", text |-> str(n)]

JString(text) == [t |-> "string", text |-> text]

JBool(b) == [t |-> IF b THEN "true" ELSE "false", text |-> <<>>]

\* the Python value json.load builds for a JSON value
FromJson(j) ==
    IF j.t = "number" THEN int(j.text)
    ELSE IF j.t = "string" THEN j.text
    ELSE j.t = "true"

\* json.dump(config, f, indent=2) of a registry: objects keep their keys (all
\* strings) and the env map its order
json_dump(config) ==
    [services |->
        [n \in DOMAIN config.services |->
            [command |-> JString(config.services[n].command),
             port |-> JNumber(config.services[n].port),
             working_dir |-> JString(config.services[n].working_dir),
             enabled |-> JBool(config.services[n].enabled),
             env |-> [i \in 1..Len(config.services[n].env) |->
                         <<config.services[n].env[i][1],
                           JString(config.services[n].env[i][2])>>]]],
     port_ranges |->
        [r \in DOMAIN config.port_ranges |->
            [start |-> JNumber(config.port_ranges[r].start),
             end |-> JNumber(config.port_ranges[r].end)]]]

\* json.load(f) of a registry document
json_load(doc) ==
    [services |->
        [n \in DOMAIN doc.services |->
            [command |-> FromJson(doc.services[n].command),
             port |-> FromJson(doc.services[n].port),
             working_dir |-> FromJson(doc.services[n].working_dir),
             enabled |-> FromJson(doc.services[n].enabled),
             env |-> [i \in 1..Len(doc.services[n].env) |->
                         <<doc.services[n].env[i][1], FromJson(doc.services[n].env[i][2])>>]]],
     port_ranges |->
        [r \in DOMAIN doc.port_ranges |->
            [start |-> FromJson(doc.port_ranges[r].start),
             end |-> FromJson(doc.port_ranges[r].end)]]]

\* the three stores as one value, the argument and result of the operations below.
\* saves counts the save_config calls that returned; log lists, in order, the
\* commands sent to systemctl and lsof, "save" for a save_config that returned,
\* "env" for a mirror file written and "unlink" for one deleted; writable says
\* whether an existing CONFIG_FILE may be opened for writing (a read-only file
\* makes open raise PermissionError); exc is the exception a save raised.
FS ==
    [store |-> store, backups |-> backups, env |-> envFiles, saves |-> 0, log |-> <<>>,
     writable |-> TRUE, exc |-> "none"]

\* ------------------------------------------------------------------ utils/config.py

\* an initialize_config that writes nothing
initialize_config_nothing(fs) == [fs |-> fs, ret |-> FALSE]

\* a file the program has just created can be written by it
initialize_config(fs) ==
    IF fs.store.state = "missing"
    THEN [fs |-> [fs EXCEPT !.store = OkFile(DefaultConfig), !.writable = TRUE],
          ret |-> TRUE]
    ELSE [fs |-> fs, ret |-> FALSE]

load_config(fs) ==
    LET fs1 == initialize_config(fs).fs
    IN  IF fs1.store.state = "badjson"
        THEN [fs |-> fs1, ret |-> NoData, exc |-> "JSONDecodeError"]
        ELSE [fs |-> fs1, ret |-> fs1.store.data, exc |-> "none"]

\* backup_config that reads the document through load_config before it copies
backup_config_loaded(fs, now) ==
    [fs |-> [load_config(fs).fs EXCEPT !.backups = (now :> load_config(fs).fs.store) @@ fs.backups],
     made |-> TRUE, path |-> now]

\* shutil.copy2 to BACKUP_DIR / auto-backup-<timestamp>.json: an existing file of
\* that name is overwritten
backup_config(fs, now) ==
    IF fs.store.state # "missing"
    THEN [fs |-> [fs EXCEPT !.backups = (now :> fs.store) @@ fs.backups],
          made |-> TRUE, path |-> now]
    ELSE [fs |-> fs, made |-> FALSE, path |-> now]

\* HasServices as a test for the key: "services" in current_config
HasServicesKey(config) == TRUE

\* current_config.get("services") is truthy
HasServices(config) == DOMAIN config.services # {}

\* a save_config that never takes the backup branch
NoBackupNeeded(fs) == FALSE

\* the guard of the backup in save_config: the file exists, parses and has services
NeedsBackup(fs) ==
    /\ fs.store.state # "missing"
    /\ load_config(fs).exc = "none"
    /\ HasServices(load_config(fs).ret)

\* WriteStore with the file opened in mode "a": the text is added after the old one
WriteStoreAppend(fs, config) ==
    IF fs.store.state = "missing"
    THEN [fs EXCEPT !.store = OkFile(config), !.saves = @ + 1, !.log = Append(@, "save")]
    ELSE [fs EXCEPT !.store = BadJson, !.saves = @ + 1, !.log = Append(@, "save")]

\* open(CONFIG_FILE, "w") and json.dump: PermissionError when the file exists and
\* cannot be opened for writing
WriteStore(fs, config) ==
    IF fs.writable \/ fs.store.state = "missing"
    THEN [fs EXCEPT !.store = OkFile(config), !.saves = @ + 1, !.log = Append(@, "save")]
    ELSE [fs EXCEPT !.exc = "PermissionError"]

\* only JSONDecodeError and FileNotFoundError are caught around the backup: on a
\* document that is no object current_config.get raises AttributeError
save_config(fs, config, now) ==
    IF fs.store.state = "notdict" THEN [fs EXCEPT !.exc = "AttributeError"]
    ELSE WriteStore(IF NeedsBackup(fs) THEN backup_config(fs, now).fs ELSE fs, config)

\* save_config of control_panel/utils/config.py
save_config_pkg(fs, config, now) == WriteStore(fs, config)

UsedPorts(config) == {config.services[n].port : n \in DOMAIN config.services}

\* ScanPorts with range(start, end) in place of range(start, end + 1)
RECURSIVE ScanPortsExclusive(_, _, _)
ScanPortsExclusive(port, end, used) ==
    IF port >= end THEN [found |-> FALSE, port |-> 0]
    ELSE IF port \notin used THEN [found |-> TRUE, port |-> port]
    ELSE ScanPortsExclusive(port + 1, end, used)

\* ScanPorts that does not look at the ports in use
ScanPortsFirst(port, end, used) == [found |-> port <= end, port |-> port]

\* for port in range(start, end + 1): if port not in used_ports: return port
RECURSIVE ScanPorts(_, _, _)
ScanPorts(port, end, used) ==
    IF port > end THEN [found |-> FALSE, port |-> 0]
    ELSE IF port \notin used THEN [found |-> TRUE, port |-> port]
    ELSE ScanPorts(port + 1, end, used)

find_available_port(fs, port_range) ==
    LET cur == load_config(fs)
        scan == ScanPorts(port_range.start, port_range.end, UsedPorts(cur.ret))
    IN  IF cur.exc # "none" THEN [fs |-> cur.fs, ret |-> 0, exc |-> cur.exc]
        ELSE IF scan.found THEN [fs |-> cur.fs, ret |-> scan.port, exc |-> "none"]
        ELSE [fs |-> cur.fs, ret |-> 0, exc |-> "ValueError"]

RECURSIVE EnvLines(_)
EnvLines(env) ==
    IF env = <<>> THEN <<>> ELSE EnvLine(env[1][1], env[1][2]) \o EnvLines(Tail(env))

EnvFileText(service_config) ==
    EnvLine(K_COMMAND, service_config.command)
    \o (IF service_config.working_dir # <<>>
        THEN EnvLine(K_WORKING_DIR, service_config.working_dir) ELSE <<>>)
    \o EnvLine(K_PORT, str(service_config.port))
    \o EnvLines(service_config.env)

create_env_file(fs, name, service_config) ==
    [fs EXCEPT !.env = (name :> EnvFileText(service_config)) @@ fs.env,
               !.log = Append(@, "env")]

\* create_env_file of control_panel/utils/config.py: WORKING_DIR is always written
EnvFileTextPkg(service_config) ==
    EnvLine(K_COMMAND, service_config.command)
    \o EnvLine(K_WORKING_DIR, service_config.working_dir)
    \o EnvLine(K_PORT, str(service_config.port))
    \o EnvLines(service_config.env)

create_env_file_pkg(fs, name, service_config) ==
    [fs EXCEPT !.env = (name :> EnvFileTextPkg(service_config)) @@ fs.env,
               !.log = Append(@, "env")]

\* one "for line in f" step of recover_from_env_files on the parse state acc
ParseLine(acc, rawline) ==
    LET line == strip(rawline)
        key == split1(line)[1]
        value == split1(line)[2]
    IN  IF acc.exc # "none" \/ ~HasEq(line) THEN acc
        ELSE IF key = K_COMMAND THEN [acc EXCEPT !.command = value]
        ELSE IF key = K_PORT
             THEN IF IsDigits(strip(value))
                  THEN [acc EXCEPT !.port = int(strip(value))]
                  ELSE [acc EXCEPT !.exc = "ValueError"]
        ELSE IF key = K_WORKING_DIR THEN [acc EXCEPT !.working_dir = value]
        ELSE [acc EXCEPT !.env = DictSet(acc.env, key, value)]

RECURSIVE ParseLines(_, _)
ParseLines(acc, lines) ==
    IF lines = <<>> THEN acc ELSE ParseLines(ParseLine(acc, Head(lines)), Tail(lines))

\* the parse of one env file; command = None is the empty text, port = None is 0
\* (the only later use of both is "if command and port")
ParseEnvFile(text) ==
    ParseLines([command |-> <<>>, port |-> 0, working_dir |-> RecoverDefaultDir,
                env |-> <<>>, exc |-> "none"],
               readlines(text))

\* active, enabled: the units for which systemctl is-active / is-enabled exit 0
recover_from_env_files(fs, active, enabled) ==
    LET parsed == [n \in DOMAIN fs.env \cap active |-> ParseEnvFile(fs.env[n])]
        accepted == {n \in DOMAIN parsed : parsed[n].command # <<>> /\ parsed[n].port # 0}
    IN  IF \E n \in DOMAIN parsed : parsed[n].exc # "none"
        THEN [ret |-> NoServices, exc |-> "ValueError"]
        ELSE [ret |-> [n \in accepted |->
                          [command |-> parsed[n].command,
                           port |-> parsed[n].port,
                           working_dir |-> parsed[n].working_dir,
                           enabled |-> n \in enabled,
                           env |-> parsed[n].env]],
              exc |-> "none"]

recover_config(fs, now, active, enabled) ==
    LET rec == recover_from_env_files(fs, active, enabled)
        new_config == [services |-> rec.ret, port_ranges |-> DefaultConfig.port_ranges]
        fs1 == IF fs.store.state # "missing" THEN backup_config(fs, now).fs ELSE fs
        fs2 == save_config(fs1, new_config, now)
    IN  IF rec.exc # "none" THEN [fs |-> fs, ret |-> 0, exc |-> rec.exc]
        ELSE IF fs2.exc # "none" THEN [fs |-> fs2, ret |-> 0, exc |-> fs2.exc]
        ELSE [fs |-> fs2, ret |-> Cardinality(DOMAIN rec.ret), exc |-> "none"]

\* ------------------------------------------------------------------ utils/service.py

\* the save_config and create_env_file that "from .config import ..." binds:
\* utils/config.py, or control_panel/utils/config.py when pkg
Save(pkg, fs, config, now) ==
    IF pkg THEN save_config_pkg(fs, config, now) ELSE save_config(fs, config, now)

CreateEnv(pkg, fs, name, service_config) ==
    IF pkg THEN create_env_file_pkg(fs, name, service_config)
    ELSE create_env_file(fs, name, service_config)

\* for env_var in env_vars: if '=' in env_var: env[key] = value
RECURSIVE ProcessEnvVars(_, _)
ProcessEnvVars(env, env_vars) ==
    IF env_vars = <<>> THEN env
    ELSE ProcessEnvVars(
             IF HasEq(Head(env_vars))
             THEN DictSet(env, split1(Head(env_vars))[1], split1(Head(env_vars))[2])
             ELSE env,
             Tail(env_vars))

\* NewServiceConfig with PORT put into env before the --env arguments are processed
NewServiceConfigPortFirst(command, port, working_dir, env_vars) ==
    [command |-> command,
     port |-> port,
     working_dir |-> IF working_dir # <<>> THEN working_dir ELSE Home,
     enabled |-> FALSE,
     env |-> ProcessEnvVars(<<<<K_PORT, str(port)>>>>, env_vars)]

\* NewServiceConfig with the entry enabled from the start
NewServiceConfigEnabled(command, port, working_dir, env_vars) ==
    [command |-> command,
     port |-> port,
     working_dir |-> IF working_dir # <<>> THEN working_dir ELSE Home,
     enabled |-> TRUE,
     env |-> DictSet(ProcessEnvVars(<<>>, env_vars), K_PORT, str(port))]

\* the entry register_service builds once the port is known
NewServiceConfig(command, port, working_dir, env_vars) ==
    [command |-> command,
     port |-> port,
     working_dir |-> IF working_dir # <<>> THEN working_dir ELSE Home,
     enabled |-> FALSE,
     env |-> DictSet(ProcessEnvVars(<<>>, env_vars), K_PORT, str(port))]

\* return False, msg
Failure(fs, msg) == [fs |-> fs, ok |-> FALSE, val |-> 0, msg |-> msg, exc |-> "none"]

\* an exception leaves the function
Raised(fs, exc) == [fs |-> fs, ok |-> FALSE, val |-> 0, msg |-> "", exc |-> exc]

\* return True, val
Success(fs, val) == [fs |-> fs, ok |-> TRUE, val |-> val, msg |-> "", exc |-> "none"]

\* register_service with the env file written before the checks
register_service_env_first(fs, now, pkg, name, command, port, working_dir, range_name, env_vars) ==
    LET fs0 == CreateEnv(pkg, fs, name, NewServiceConfig(command, port, working_dir, env_vars))
        cur == load_config(fs0)
        config == cur.ret
        found == find_available_port(cur.fs, config.port_ranges[range_name])
        p == IF port # 0 THEN port ELSE found.ret
        service_config == NewServiceConfig(command, p, working_dir, env_vars)
        config1 == [config EXCEPT !.services = (name :> service_config) @@ config.services]
        fs1 == Save(pkg, cur.fs, config1, now)
    IN  IF cur.exc # "none" THEN Raised(cur.fs, cur.exc)
        ELSE IF name \in DOMAIN config.services THEN Failure(cur.fs, "already exists")
        ELSE IF port = 0 /\ range_name \notin DOMAIN config.port_ranges
             THEN Failure(cur.fs, "not defined")
        ELSE IF port = 0 /\ found.exc = "ValueError" THEN Failure(found.fs, "No available ports")
        ELSE IF fs1.exc # "none" THEN Raised(fs1, fs1.exc)
        ELSE Success(CreateEnv(pkg, fs1, name, service_config), p)

\* port = 0 stands for port = None: both take the "if not port" branch
register_service(fs, now, pkg, name, command, port, working_dir, range_name, env_vars) ==
    LET cur == load_config(fs)
        config == cur.ret
        found == find_available_port(cur.fs, config.port_ranges[range_name])
        p == IF port # 0 THEN port ELSE found.ret
        service_config == NewServiceConfig(command, p, working_dir, env_vars)
        config1 == [config EXCEPT !.services = (name :> service_config) @@ config.services]
        fs1 == Save(pkg, cur.fs, config1, now)
    IN  IF cur.exc # "none" THEN Raised(cur.fs, cur.exc)
        ELSE IF name \in DOMAIN config.services THEN Failure(cur.fs, "already exists")
        ELSE IF port = 0 /\ range_name \notin DOMAIN config.port_ranges
             THEN Failure(cur.fs, "not defined")
        ELSE IF port = 0 /\ found.exc = "ValueError" THEN Failure(found.fs, "No available ports")
        ELSE IF fs1.exc # "none" THEN Raised(fs1, fs1.exc)
        ELSE Success(CreateEnv(pkg, fs1, name, service_config), p)

RemoveKey(f, k) == [n \in DOMAIN f \ {k} |-> f[n]]

\* subprocess.run(["systemctl", "--user", ...]) starts one command
Systemctl(fs, verb) == [fs EXCEPT !.log = Append(@, verb)]

\* Unlink that leaves the file where it is
UnlinkKept(fs, name) == fs

\* env_file.unlink() when the file exists
Unlink(fs, name) ==
    IF name \in DOMAIN fs.env
    THEN [fs EXCEPT !.env = RemoveKey(fs.env, name), !.log = Append(@, "unlink")]
    ELSE fs

\* unregister_service that removes the entry and leaves the mirror record
unregister_service_keep(fs, now, pkg, name, ctl) ==
    LET cur == load_config(fs)
        config == cur.ret
        config1 == [config EXCEPT !.services = RemoveKey(config.services, name)]
        called == Systemctl(Systemctl(cur.fs, "stop"), "disable")
        fs1 == Save(pkg, called, config1, now)
    IN  IF cur.exc # "none" THEN Raised(cur.fs, cur.exc)
        ELSE IF name \notin DOMAIN config.services THEN Failure(cur.fs, "not found")
        ELSE IF ctl = "unreachable" THEN Raised(cur.fs, "FileNotFoundError")
        ELSE IF fs1.exc # "none" THEN Raised(fs1, fs1.exc)
        ELSE Success(fs1, 0)

\* ctl is what the process layer does with the stop and disable requests: "ok"
\* (exit status 0), "error" (another exit status) or "unreachable" (systemctl
\* cannot be run, subprocess.run raises FileNotFoundError).  The exit statuses
\* are not read, and nothing is caught.
unregister_service(fs, now, pkg, name, ctl) ==
    LET cur == load_config(fs)
        config == cur.ret
        config1 == [config EXCEPT !.services = RemoveKey(config.services, name)]
        called == Systemctl(Systemctl(cur.fs, "stop"), "disable")
        fs1 == Save(pkg, called, config1, now)
    IN  IF cur.exc # "none" THEN Raised(cur.fs, cur.exc)
        ELSE IF name \notin DOMAIN config.services THEN Failure(cur.fs, "not found")
        ELSE IF ctl = "unreachable" THEN Raised(cur.fs, "FileNotFoundError")
        ELSE IF fs1.exc # "none" THEN Raised(fs1, fs1.exc)
        ELSE Success(Unlink(fs1, name), 0)

\* detect_service_port of control_panel/utils/service.py: "systemctl show" for the
\* MainPID, then lsof on that process; detected = 0 is the answer None, given
\* here when there is no MainPID
detect_service_port(fs, detected) ==
    IF detected # 0 THEN Systemctl(Systemctl(fs, "show"), "lsof") ELSE Systemctl(fs, "show")

\* control_service with the controller command sent before the name is looked up
control_service_unchecked(fs, now, pkg, name, action, returncode, detected, interrupted) ==
    LET cur == load_config(fs)
        config == cur.ret
        called == Systemctl(cur.fs, action)
        asked == detect_service_port(called, detected)
        service1 == [config.services[name] EXCEPT
                        !.port = detected,
                        !.env = DictSet(config.services[name].env, K_PORT, str(detected))]
        config1 == [config EXCEPT !.services[name] = service1]
        fs1 == save_config_pkg(asked, config1, now)
    IN  IF cur.exc # "none" THEN Raised(cur.fs, cur.exc)
        ELSE IF interrupted THEN Raised(called, "KeyboardInterrupt")
        ELSE IF name \notin DOMAIN config.services THEN Failure(called, "not found")
        ELSE IF returncode # 0 THEN Failure(called, "Failed to " \o action)
        ELSE IF pkg /\ action = "start"
             THEN IF detected # 0 /\ detected # config.services[name].port
                  THEN IF fs1.exc # "none" THEN Raised(fs1, fs1.exc)
                       ELSE Success(create_env_file_pkg(fs1, name, service1), 0)
                  ELSE Success(asked, 0)
        ELSE Success(called, 0)

\* control_service with the reconciliation made without looking at the outcome of
\* the controller call
control_service_eager(fs, now, pkg, name, action, returncode, detected, interrupted) ==
    LET cur == load_config(fs)
        config == cur.ret
        service == config.services[name]
        called == Systemctl(cur.fs, action)
        asked == detect_service_port(called, detected)
        service1 == [service EXCEPT !.port = detected,
                                    !.env = DictSet(service.env, K_PORT, str(detected))]
        config1 == [config EXCEPT !.services[name] = service1]
        fs1 == save_config_pkg(asked, config1, now)
    IN  IF cur.exc # "none" THEN Raised(cur.fs, cur.exc)
        ELSE IF name \notin DOMAIN config.services THEN Failure(cur.fs, "not found")
        ELSE IF pkg /\ action = "start" /\ detected # 0 /\ detected # service.port
             THEN IF fs1.exc # "none" THEN Raised(fs1, fs1.exc)
                  ELSE IF interrupted THEN Raised(fs1, "KeyboardInterrupt")
                  ELSE IF returncode # 0 THEN Failure(fs1, "Failed to " \o action)
                  ELSE Success(create_env_file_pkg(fs1, name, service1), 0)
        ELSE IF interrupted THEN Raised(called, "KeyboardInterrupt")
        ELSE IF returncode # 0 THEN Failure(called, "Failed to " \o action)
        ELSE Success(called, 0)

\* returncode: the exit status of "systemctl <action>"; interrupted: the call is
\* cut short before it returns (Ctrl-C) and the exception leaves the function;
\* detected: the result of detect_service_port.  Only
\* control_panel/utils/service.py (pkg) reconciles the port after a start.
control_service(fs, now, pkg, name, action, returncode, detected, interrupted) ==
    LET cur == load_config(fs)
        config == cur.ret
        service == config.services[name]
        called == Systemctl(cur.fs, action)
        asked == detect_service_port(called, detected)
        service1 == [service EXCEPT !.port = detected,
                                    !.env = DictSet(service.env, K_PORT, str(detected))]
        config1 == [config EXCEPT !.services[name] = service1]
        fs1 == save_config_pkg(asked, config1, now)
    IN  IF cur.exc # "none" THEN Raised(cur.fs, cur.exc)
        ELSE IF name \notin DOMAIN config.services THEN Failure(cur.fs, "not found")
        ELSE IF interrupted THEN Raised(called, "KeyboardInterrupt")
        ELSE IF returncode # 0 THEN Failure(called, "Failed to " \o action)
        ELSE IF pkg /\ action = "start"
             THEN IF detected # 0 /\ detected # service.port
                  THEN IF fs1.exc # "none" THEN Raised(fs1, fs1.exc)
                       ELSE Success(create_env_file_pkg(fs1, name, service1), 0)
                  ELSE Success(asked, 0)
        ELSE Success(called, 0)

\* ------------------------------------------------------------------ control_panel/cli.py

RECURSIVE RemoveEnvKeys(_, _)
RemoveEnvKeys(env, keys) ==
    IF keys = <<>> THEN env ELSE RemoveEnvKeys(DictDel(env, Head(keys)), Tail(keys))

\* the file edit writes itself: COMMAND, PORT and the env map, no WORKING_DIR
EditEnvFileText(service) ==
    EnvLine(K_COMMAND, service.command)
    \o EnvLine(K_PORT, str(service.port))
    \o EnvLines(service.env)

\* edit with the env file written before save_config is called
edit_mirror_first(fs, now, pkg, name, command, port, path, env_add, env_remove, detect_port, detected) ==
    LET cur == load_config(fs)
        config == cur.ret
        service == config.services[name]
        s1 == IF command # <<>> THEN [service EXCEPT !.command = command] ELSE service
        s2 == IF path # <<>> THEN [s1 EXCEPT !.working_dir = path] ELSE s1
        s3 == IF detect_port
              THEN IF detected # 0 THEN [s2 EXCEPT !.port = detected] ELSE s2
              ELSE IF port # 0 THEN [s2 EXCEPT !.port = port] ELSE s2
        port1 == IF detect_port /\ detected # 0 THEN detected ELSE port
        s4 == [s3 EXCEPT !.env = RemoveEnvKeys(ProcessEnvVars(s3.env, env_add), env_remove)]
        s5 == IF port1 # 0 \/ detect_port
              THEN [s4 EXCEPT !.env = DictSet(s4.env, K_PORT, str(s4.port))]
              ELSE s4
        config1 == [config EXCEPT !.services[name] = s5]
        asked == IF detect_port THEN detect_service_port(cur.fs, detected) ELSE cur.fs
        written == [asked EXCEPT !.env = (name :> EditEnvFileText(s5)) @@ asked.env,
                                 !.log = Append(@, "env")]
        fs1 == Save(pkg, written, config1, now)
    IN  IF cur.exc # "none" THEN Raised(cur.fs, cur.exc)
        ELSE IF name \notin DOMAIN config.services THEN Failure(cur.fs, "not found")
        ELSE IF fs1.exc # "none" THEN Raised(fs1, fs1.exc)
        ELSE Success(fs1, 0)

\* edit that assigns the command whether or not --command was given
edit_overwrite(fs, now, pkg, name, command, port, path, env_add, env_remove, detect_port, detected) ==
    LET cur == load_config(fs)
        config == cur.ret
        service == config.services[name]
        s1 == [service EXCEPT !.command = command]
        s2 == IF path # <<>> THEN [s1 EXCEPT !.working_dir = path] ELSE s1
        s3 == IF detect_port
              THEN IF detected # 0 THEN [s2 EXCEPT !.port = detected] ELSE s2
              ELSE IF port # 0 THEN [s2 EXCEPT !.port = port] ELSE s2
        port1 == IF detect_port /\ detected # 0 THEN detected ELSE port
        s4 == [s3 EXCEPT !.env = RemoveEnvKeys(ProcessEnvVars(s3.env, env_add), env_remove)]
        s5 == IF port1 # 0 \/ detect_port
              THEN [s4 EXCEPT !.env = DictSet(s4.env, K_PORT, str(s4.port))]
              ELSE s4
        config1 == [config EXCEPT !.services[name] = s5]
        asked == IF detect_port THEN detect_service_port(cur.fs, detected) ELSE cur.fs
        fs1 == Save(pkg, asked, config1, now)
    IN  IF cur.exc # "none" THEN Raised(cur.fs, cur.exc)
        ELSE IF name \notin DOMAIN config.services THEN Failure(cur.fs, "not found")
        ELSE IF fs1.exc # "none" THEN Raised(fs1, fs1.exc)
        ELSE Success([fs1 EXCEPT !.env = (name :> EditEnvFileText(s5)) @@ fs1.env,
                                 !.log = Append(@, "env")], 0)

\* edit in which an explicit --port is looked at before --detect-port
edit_port_first(fs, now, pkg, name, command, port, path, env_add, env_remove, detect_port, detected) ==
    LET cur == load_config(fs)
        config == cur.ret
        service == config.services[name]
        s1 == IF command # <<>> THEN [service EXCEPT !.command = command] ELSE service
        s2 == IF path # <<>> THEN [s1 EXCEPT !.working_dir = path] ELSE s1
        s3 == IF port # 0 THEN [s2 EXCEPT !.port = port]
              ELSE IF detect_port /\ detected # 0 THEN [s2 EXCEPT !.port = detected] ELSE s2
        port1 == IF port # 0 THEN port ELSE IF detect_port THEN detected ELSE 0
        s4 == [s3 EXCEPT !.env = RemoveEnvKeys(ProcessEnvVars(s3.env, env_add), env_remove)]
        s5 == IF port1 # 0 \/ detect_port
              THEN [s4 EXCEPT !.env = DictSet(s4.env, K_PORT, str(s4.port))]
              ELSE s4
        config1 == [config EXCEPT !.services[name] = s5]
        asked == IF detect_port THEN detect_service_port(cur.fs, detected) ELSE cur.fs
        fs1 == Save(pkg, asked, config1, now)
    IN  IF cur.exc # "none" THEN Raised(cur.fs, cur.exc)
        ELSE IF name \notin DOMAIN config.services THEN Failure(cur.fs, "not found")
        ELSE IF fs1.exc # "none" THEN Raised(fs1, fs1.exc)
        ELSE Success([fs1 EXCEPT !.env = (name :> EditEnvFileText(s5)) @@ fs1.env,
                                 !.log = Append(@, "env")], 0)

\* command = <<>>, port = 0, path = <<>> stand for options that were not given;
\* detected is the result of detect_service_port, 0 for None
edit(fs, now, pkg, name, command, port, path, env_add, env_remove, detect_port, detected) ==
    LET cur == load_config(fs)
        config == cur.ret
        service == config.services[name]
        s1 == IF command # <<>> THEN [service EXCEPT !.command = command] ELSE service
        s2 == IF path # <<>> THEN [s1 EXCEPT !.working_dir = path] ELSE s1
        s3 == IF detect_port
              THEN IF detected # 0 THEN [s2 EXCEPT !.port = detected] ELSE s2
              ELSE IF port # 0 THEN [s2 EXCEPT !.port = port] ELSE s2
        port1 == IF detect_port /\ detected # 0 THEN detected ELSE port
        s4 == [s3 EXCEPT !.env = RemoveEnvKeys(ProcessEnvVars(s3.env, env_add), env_remove)]
        s5 == IF port1 # 0 \/ detect_port
              THEN [s4 EXCEPT !.env = DictSet(s4.env, K_PORT, str(s4.port))]
              ELSE s4
        config1 == [config EXCEPT !.services[name] = s5]
        asked == IF detect_port THEN detect_service_port(cur.fs, detected) ELSE cur.fs
        fs1 == Save(pkg, asked, config1, now)
    IN  IF cur.exc # "none" THEN Raised(cur.fs, cur.exc)
        ELSE IF name \notin DOMAIN config.services THEN Failure(cur.fs, "not found")
        ELSE IF fs1.exc # "none" THEN Raised(fs1, fs1.exc)
        ELSE Success([fs1 EXCEPT !.env = (name :> EditEnvFileText(s5)) @@ fs1.env,
                                 !.log = Append(@, "env")], 0)

\* add_range without the comparison of end and start
add_range_unchecked(fs, now, pkg, range_name, start, end) ==
    LET cur == load_config(fs)
        config == cur.ret
        config1 == [config EXCEPT
                      !.port_ranges = (range_name :> [start |-> start, end |-> end])
                                      @@ config.port_ranges]
        fs1 == Save(pkg, cur.fs, config1, now)
    IN  IF cur.exc # "none" THEN Raised(cur.fs, cur.exc)
        ELSE IF fs1.exc # "none" THEN Raised(fs1, fs1.exc)
        ELSE Success(fs1, 0)

\* add_range of cli.py
add_range(fs, now, pkg, range_name, start, end) ==
    LET cur == load_config(fs)
        config == cur.ret
        config1 == [config EXCEPT
                      !.port_ranges = (range_name :> [start |-> start, end |-> end])
                                      @@ config.port_ranges]
        fs1 == Save(pkg, cur.fs, config1, now)
    IN  IF end <= start THEN Failure(fs, "End port must be greater")
        ELSE IF cur.exc # "none" THEN Raised(cur.fs, cur.exc)
        ELSE IF fs1.exc # "none" THEN Raised(fs1, fs1.exc)
        ELSE Success(fs1, 0)

\* the lsof call of find_process_by_port, as it appears in the log
KillCmd(port) == "lsof -i :" \o ToString(port)

\* kill_process_by_port of utils/node_helper.py: lsof for the pids on the port,
\* then os.kill on each; found says whether lsof listed a process
kill_process_by_port(fs, port, force, found) ==
    [fs |-> [fs EXCEPT !.log = Append(@, KillCmd(port))],
     ret |-> found,
     msg |-> IF found THEN "Killed process(es)" ELSE "No process found using this port"]

\* stop with the port-killing step left out when the controller call failed
stop_unwound(fs, now, pkg, name, force, returncode, interrupted, found) ==
    LET cur == load_config(fs)
        config == cur.ret
        ctl == control_service(cur.fs, now, pkg, name, "stop", returncode, 0, interrupted)
        killed == kill_process_by_port(ctl.fs, config.services[name].port, force, found)
    IN  IF cur.exc # "none" THEN Raised(cur.fs, cur.exc)
        ELSE IF name \notin DOMAIN config.services THEN Failure(cur.fs, "not found")
        ELSE IF ctl.exc # "none" THEN Raised(ctl.fs, ctl.exc)
        ELSE IF ~ctl.ok THEN [Success(ctl.fs, 0) EXCEPT !.msg = ctl.msg]
        ELSE [Success(killed.fs, 0) EXCEPT !.msg = ctl.msg]

\* the stop command: the registry is loaded for the lookup and the port, then
\* control_service(name, "stop") loads it again; its failure is printed as a
\* warning (msg) and the command goes on.  val is 1 when processes were killed.
stop(fs, now, pkg, name, force, returncode, interrupted, found) ==
    LET cur == load_config(fs)
        config == cur.ret
        ctl == control_service(cur.fs, now, pkg, name, "stop", returncode, 0, interrupted)
        killed == kill_process_by_port(ctl.fs, config.services[name].port, force, found)
    IN  IF cur.exc # "none" THEN Raised(cur.fs, cur.exc)
        ELSE IF name \notin DOMAIN config.services THEN Failure(cur.fs, "not found")
        ELSE IF ctl.exc # "none" THEN Raised(ctl.fs, ctl.exc)
        ELSE [Success(killed.fs, IF killed.ret THEN 1 ELSE 0) EXCEPT !.msg = ctl.msg]

\* SetEnabled that writes the flag only when the controller command exited with 0
SetEnabledChecked(fs, now, pkg, name, flag, ctl) ==
    LET cur == load_config(fs)
        config == cur.ret
        called == Systemctl(cur.fs, IF flag THEN "enable" ELSE "disable")
        config1 == [config EXCEPT !.services[name].enabled = flag]
        fs1 == Save(pkg, called, config1, now)
    IN  IF cur.exc # "none" THEN Raised(cur.fs, cur.exc)
        ELSE IF name \notin DOMAIN config.services THEN Failure(cur.fs, "not found")
        ELSE IF ctl = "unreachable" THEN Raised(cur.fs, "FileNotFoundError")
        ELSE IF ctl = "error" THEN Failure(called, "Failed")
        ELSE IF fs1.exc # "none" THEN Raised(fs1, fs1.exc)
        ELSE Success(fs1, 0)

\* the body the enable and disable commands share: lookup, one systemctl command
\* whose exit status is not read (ctl as in unregister_service), the flag, save
SetEnabled(fs, now, pkg, name, flag, ctl) ==
    LET cur == load_config(fs)
        config == cur.ret
        called == Systemctl(cur.fs, IF flag THEN "enable" ELSE "disable")
        config1 == [config EXCEPT !.services[name].enabled = flag]
        fs1 == Save(pkg, called, config1, now)
    IN  IF cur.exc # "none" THEN Raised(cur.fs, cur.exc)
        ELSE IF name \notin DOMAIN config.services THEN Failure(cur.fs, "not found")
        ELSE IF ctl = "unreachable" THEN Raised(cur.fs, "FileNotFoundError")
        ELSE IF fs1.exc # "none" THEN Raised(fs1, fs1.exc)
        ELSE Success(fs1, 0)

enable(fs, now, pkg, name, ctl) == SetEnabled(fs, now, pkg, name, TRUE, ctl)

disable(fs, now, pkg, name, ctl) == SetEnabled(fs, now, pkg, name, FALSE, ctl)

\* one call restart_all makes: control_service(name, verb) or, for verb "kill",
\* kill_process_by_port(port); port is the port of name in the registry loaded
\* at the start of the command
Call(verb, name, config) == [verb |-> verb, name |-> name, port |-> config.services[name].port]

\* what restart_all has done so far: the files, its calls in order, failed_services
NoVisits == [calls |-> <<>>, failed |-> <<>>]

\* the loop of restart_all left at the first service whose start failed
RECURSIVE RestartEachAbort(_, _, _, _, _, _)
RestartEachAbort(acc, now, pkg, config, names, in) ==
    IF names = <<>> \/ acc.exc # "none" \/ acc.failed # <<>> THEN acc
    ELSE LET name == Head(names)
             stopped == control_service(acc.fs, now, pkg, name, "stop", in.stop_rc, 0, FALSE)
             killed == kill_process_by_port(stopped.fs, config.services[name].port, FALSE, in.found)
             started == control_service(killed.fs, now, pkg, name, "start",
                                        IF name \in in.failing THEN 1 ELSE 0, in.detected, FALSE)
         IN  RestartEachAbort(
                 [fs |-> started.fs,
                  calls |-> acc.calls \o <<Call("stop", name, config), Call("kill", name, config),
                                           Call("start", name, config)>>,
                  failed |-> IF started.ok THEN acc.failed ELSE Append(acc.failed, name),
                  exc |-> started.exc],
                 now, pkg, config, Tail(names), in)

\* for name in services_to_restart: stop, kill_process_by_port, start.  in.stop_rc
\* is the exit status of every "systemctl stop", in.failing the services whose
\* "systemctl start" exits non-zero, in.detected the answer of detect_service_port
\* after a start, in.found whether lsof lists a process.  The result of the stop
\* and of the kill are not read.
RECURSIVE RestartEach(_, _, _, _, _, _)
RestartEach(acc, now, pkg, config, names, in) ==
    IF names = <<>> \/ acc.exc # "none" THEN acc
    ELSE LET name == Head(names)
             stopped == control_service(acc.fs, now, pkg, name, "stop", in.stop_rc, 0, FALSE)
             killed == kill_process_by_port(stopped.fs, config.services[name].port, FALSE, in.found)
             started == control_service(killed.fs, now, pkg, name, "start",
                                        IF name \in in.failing THEN 1 ELSE 0, in.detected, FALSE)
         IN  RestartEach(
                 [fs |-> started.fs,
                  calls |-> acc.calls \o <<Call("stop", name, config), Call("kill", name, config),
                                           Call("start", name, config)>>,
                  failed |-> IF started.ok THEN acc.failed ELSE Append(acc.failed, name),
                  exc |-> started.exc],
                 now, pkg, config, Tail(names), in)

\* the restart-all command.  order is config["services"].items(): the names in
\* the order of the document, which the registry of this model does not keep.
restart_all(fs, now, pkg, enabled_only, order, in) ==
    LET cur == load_config(fs)
        config == cur.ret
        services_to_restart ==
            SelectSeq(order, LAMBDA n : ~enabled_only \/ config.services[n].enabled)
        done == RestartEach([fs |-> cur.fs, calls |-> <<>>, failed |-> <<>>, exc |-> "none"],
                            now, pkg, config, services_to_restart, in)
        val == [calls |-> done.calls, failed |-> done.failed]
    IN  IF cur.exc # "none" THEN [Raised(cur.fs, cur.exc) EXCEPT !.val = NoVisits]
        ELSE IF DOMAIN config.services = {}
             THEN [Success(cur.fs, NoVisits) EXCEPT !.msg = "No services registered"]
        ELSE IF services_to_restart = <<>>
             THEN [Success(cur.fs, NoVisits) EXCEPT
                      !.msg = IF enabled_only THEN "No enabled services to restart"
                              ELSE "No services to restart"]
        ELSE IF done.exc # "none" THEN [Raised(done.fs, done.exc) EXCEPT !.val = val]
        ELSE Success(done.fs, val)

\* a file that parses as a JSON object without the key "services"
NoKeyFile == [state |-> "nokey", data |-> NoData]

\* the restore command; file is the document at the path given.  A file that is
\* missing or does not parse, or is no object or has no "services", is refused
\* before anything else is done.  Otherwise the current registry is loaded and
\* dumped to ./backups/control-panel-backup-<date>.json (a directory relative to
\* the working directory, with a file name no auto-backup has; "manual-backup"
\* in the log), and the data of the file is handed to save_config.
restore(fs, now, pkg, file) ==
    LET cur == load_config(fs)
        copied == [cur.fs EXCEPT !.log = Append(@, "manual-backup")]
        fs1 == Save(pkg, copied, file.data, now)
    IN  IF file.state \in {"missing", "badjson"} THEN Failure(fs, "Error reading backup file")
        ELSE IF file.state # "ok" THEN Failure(fs, "Invalid backup file format")
        ELSE IF cur.exc # "none" THEN Raised(cur.fs, cur.exc)
        ELSE IF fs1.exc # "none" THEN Raised(fs1, fs1.exc)
        ELSE Success(fs1, 1)

\* ------------------------------------------------------------------ inputs

Names == {"a", "b", "c"}

CmdRun == <<"r", "u", "n">>

CmdPy == <<"p", "y">>

DirW == <<"/", "w">>

\* --env / --env-add arguments: KEY=VALUE texts, one of them without "="
EnvK1 == <<"K", "=", "1">>

EnvPortX == <<"P", "O", "R", "T", "=", "x">>

EnvNoEq == <<"K">>

TinyEnd == DefaultStart + 1

PortA == DefaultStart

PortB == DefaultStart + 1

PortC == DefaultStart + 2

PortD == DefaultStart + 3

\* arguments of register_service after name and command
RegisterInputs ==
    {[port |-> 0, working_dir |-> <<>>, range_name |-> "default", env_vars |-> <<>>],
     [port |-> 0, working_dir |-> DirW, range_name |-> "tiny", env_vars |-> <<EnvK1>>],
     [port |-> 0, working_dir |-> <<>>, range_name |-> "nope", env_vars |-> <<>>],
     [port |-> PortC, working_dir |-> <<>>, range_name |-> "nope",
      env_vars |-> <<EnvPortX, EnvNoEq>>],
     [port |-> PortA, working_dir |-> DirW, range_name |-> "default", env_vars |-> <<>>]}

NoPatch ==
    [command |-> <<>>, port |-> 0, path |-> <<>>, env_add |-> <<>>, env_remove |-> <<>>,
     detect_port |-> FALSE, detected |-> 0]

\* options of the edit command, with the answer of detect_service_port
EditInputs ==
    {[NoPatch EXCEPT !.command = CmdPy, !.path = DirW],
     [NoPatch EXCEPT !.port = PortC],
     [NoPatch EXCEPT !.port = PortC, !.env_add = <<EnvPortX>>, !.env_remove = <<K_PORT>>],
     [NoPatch EXCEPT !.env_add = <<EnvPortX, EnvK1>>],
     [NoPatch EXCEPT !.env_remove = <<K_PORT>>],
     [NoPatch EXCEPT !.detect_port = TRUE, !.port = PortC],
     [NoPatch EXCEPT !.detect_port = TRUE, !.detected = PortD],
     [NoPatch EXCEPT !.detect_port = TRUE, !.detected = PortD, !.port = PortC,
                     !.env_remove = <<K_PORT>>]}

Returned(action, returncode, detected) ==
    [action |-> action, returncode |-> returncode, detected |-> detected,
     interrupted |-> FALSE]

\* action, exit status of systemctl, answer of detect_service_port, and whether
\* the systemctl call is interrupted before it returns
ControlInputs ==
    {Returned("start", 0, 0),
     Returned("start", 0, PortD),
     Returned("start", 0, PortA),
     Returned("start", 1, PortD),
     Returned("stop", 0, PortD),
     Returned("stop", 1, 0),
     Returned("restart", 0, PortD),
     [Returned("start", 0, PortD) EXCEPT !.interrupted = TRUE],
     [Returned("stop", 0, 0) EXCEPT !.interrupted = TRUE]}

\* the calls that are also run against a store file that is read-only
RegisterReadOnly ==
    {[port |-> 0, working_dir |-> <<>>, range_name |-> "default", env_vars |-> <<>>]}

EditReadOnly ==
    {[NoPatch EXCEPT !.port = PortC],
     [NoPatch EXCEPT !.detect_port = TRUE, !.detected = PortD]}

ControlReadOnly == {Returned("start", 0, PortD)}

\* what the process layer does with the requests of unregister_service
ControllerAnswers == {"ok", "error", "unreachable"}

\* ------------------------------------------------------------------ state

\* no register_service call is in progress
NoRace == <<>>

NoSave == [config |-> NoData, pre |-> MissingFile, stamp |-> 0, backed |-> FALSE]

EmptyFS ==
    [store |-> MissingFile, backups |-> NoServices, env |-> NoServices, saves |-> 0,
     log |-> <<>>, writable |-> TRUE, exc |-> "none"]

\* prev: the operation that completed before the last one
NoPrev == [op |-> "none", name |-> "", ok |-> FALSE]

NoOp == [op |-> "none", name |-> "", args |-> <<>>, ok |-> FALSE, val |-> 0, msg |-> "",
         exc |-> "none", saves |-> 0, log |-> <<>>, now |-> 0, pre |-> EmptyFS,
         prev |-> NoPrev]

\* The disk as earlier runs of the program left it: nothing, or what add_range tiny,
\* register a (auto-assigned from tiny) and register b (explicit port) leave.
SeedFS(pkg) ==
    LET f1 == add_range(EmptyFS, 0, pkg, "tiny", DefaultStart, TinyEnd).fs
        f2 == register_service(f1, 0, pkg, "a", CmdRun, 0, DirW, "tiny", <<EnvK1>>).fs
        f3 == register_service(f2, 0, pkg, "b", CmdRun, PortB, <<>>, "default", <<>>).fs
    IN  {EmptyFS, f3}

Init ==
    /\ PACKAGE_MODE \in BOOLEAN
    /\ \E fs \in SeedFS(PACKAGE_MODE) :
        /\ store = fs.store
        /\ backups = fs.backups
        /\ envFiles = fs.env
    /\ clock = 0
    /\ pc = "idle"
    /\ saving = NoSave
    /\ reg = NoRace
    /\ nops = 0
    /\ last = NoOp

\* the disk as an operation finds it: the files, and whether the store can be written
Disk(w) == [FS EXCEPT !.writable = w]

\* the states of the store file an input is run against
Writable(in, readonly) == IF in \in readonly THEN BOOLEAN ELSE {TRUE}

\* the effect of one completed registry operation that found the disk as pre and
\* ended with result r
DoneR(op, name, args, pre, r) ==
    /\ nops' = nops + 1
    /\ store' = r.fs.store
    /\ backups' = r.fs.backups
    /\ envFiles' = r.fs.env
    /\ last' = [op |-> op, name |-> name, args |-> args, ok |-> r.ok, val |-> r.val,
                msg |-> r.msg, exc |-> r.exc, saves |-> r.fs.saves, log |-> r.fs.log,
                now |-> clock, pre |-> pre,
                prev |-> [op |-> last.op, name |-> last.name, ok |-> last.ok]]
    /\ UNCHANGED <<clock, PACKAGE_MODE, reg, pc, saving>>

Done(op, name, args, pre, result) ==
    /\ nops < MaxOps
    /\ \E r \in {result} : DoneR(op, name, args, pre, r)

Register ==
    \E name \in Names, in \in RegisterInputs :
      \E w \in Writable(in, RegisterReadOnly) :
        Done("register", name, in, Disk(w),
             register_service(Disk(w), clock, PACKAGE_MODE, name, CmdRun, in.port,
                              in.working_dir, in.range_name, in.env_vars))

Unregister ==
    \E name \in Names, ctl \in ControllerAnswers :
        Done("unregister", name, [ctl |-> ctl], FS,
             unregister_service(FS, clock, PACKAGE_MODE, name, ctl))

Control ==
    \E name \in Names, in \in ControlInputs :
      \E w \in Writable(in, ControlReadOnly) :
        Done("control", name, in, Disk(w),
             control_service(Disk(w), clock, PACKAGE_MODE, name, in.action, in.returncode,
                             in.detected, in.interrupted))

Edit ==
    \E name \in Names, in \in EditInputs :
      \E w \in Writable(in, EditReadOnly) :
        Done("edit", name, in, Disk(w),
             edit(Disk(w), clock, PACKAGE_MODE, name, in.command, in.port, in.path,
                  in.env_add, in.env_remove, in.detect_port, in.detected))

AddRange ==
    \E end \in {DefaultStart - 1, DefaultStart, TinyEnd} :
        Done("add_range", "tiny", [start |-> DefaultStart, end |-> end], FS,
             add_range(FS, clock, PACKAGE_MODE, "tiny", DefaultStart, end))

Recover ==
    \E active \in SUBSET Names, enabled \in {{}, {"a"}, Names} :
        LET r == recover_config(FS, clock, active, enabled)
        IN  Done("recover", "", [active |-> active, enabled |-> enabled], FS,
                 [fs |-> r.fs, ok |-> r.exc = "none", val |-> r.ret, msg |-> "",
                  exc |-> r.exc])

Next == Register \/ Unregister \/ Control \/ Edit \/ AddRange \/ Recover

Spec == Init /\ [][Next]_vars

\* ------------------------------------------------------------------ the config store alone
\* utils/config.py called directly, as its tests do, with the clock running and
\* the primary document exposed to loss and damage from outside the program.

EntryA == NewServiceConfig(CmdRun, PortA, DirW, <<EnvK1>>)

EntryB == NewServiceConfig(CmdRun, PortB, <<>>, <<>>)

\* registries handed to save_config: the empty one of the tests, one and two services
SaveInputs ==
    {NoData,
     [DefaultConfig EXCEPT !.services = [n \in {"a"} |-> EntryA]],
     [DefaultConfig EXCEPT !.services = [n \in {"a", "b"} |-> IF n = "a" THEN EntryA ELSE EntryB]]}

\* the env directory the config store runs against: empty, or the records of a and b
StoreInit ==
    /\ PACKAGE_MODE = FALSE
    /\ store = MissingFile
    /\ backups = NoServices
    /\ envFiles \in {NoServices, create_env_file(create_env_file(EmptyFS, "a", EntryA),
                                                 "b", EntryB).env}
    /\ clock = 0
    /\ pc = "idle"
    /\ saving = NoSave
    /\ reg = NoRace
    /\ nops = 0
    /\ last = NoOp

StDone(op, args, fs, val, exc) ==
    /\ store' = fs.store
    /\ backups' = fs.backups
    /\ envFiles' = fs.env
    /\ last' = [op |-> op, name |-> "", args |-> args, ok |-> exc = "none", val |-> val,
                msg |-> "", exc |-> exc, saves |-> fs.saves, log |-> fs.log, now |-> clock,
                pre |-> FS, prev |-> NoPrev]
    /\ UNCHANGED <<clock, PACKAGE_MODE, reg, pc, saving, nops>>

\* a second passes
Tick ==
    /\ clock < MaxClock
    /\ clock' = clock + 1
    /\ UNCHANGED <<store, backups, envFiles, PACKAGE_MODE, reg, pc, saving, nops, last>>

StLoad ==
    \E r \in {load_config(FS)} : StDone("load", r.ret, r.fs, 0, r.exc)

StSave ==
    \E config \in SaveInputs :
        \E fs \in {save_config(FS, config, clock)} : StDone("save", config, fs, 0, fs.exc)

StBackup ==
    \E r \in {backup_config(FS, clock)} :
        StDone("backup", <<>>, r.fs, IF r.made THEN 1 ELSE 0, "none")

StRecover ==
    \E active \in {{}, {"a", "b"}}, enabled \in {{"a"}} :
        \E r \in {recover_config(FS, clock, active, enabled)} :
            StDone("recover", [active |-> active, enabled |-> enabled], r.fs, r.ret, r.exc)

\* the restore command of cli.py, given a file of the backup directory or a path
\* with no file, a file that does not parse, or a JSON text without "services"
StRestore ==
    \E file \in {backups[t] : t \in DOMAIN backups} \cup
                {MissingFile, BadJson, NotAnObject, NoKeyFile} :
        \E r \in {restore(FS, clock, PACKAGE_MODE, file)} :
            StDone("restore", file, r.fs, r.val, IF r.ok THEN "none"
                                                 ELSE IF r.exc # "none" THEN r.exc
                                                 ELSE "refused")

\* the primary document is deleted, or damaged so that it no longer parses or no
\* longer holds a JSON object
StoreLost ==
    /\ store.state # "missing"
    /\ store' = MissingFile
    /\ last' = [NoOp EXCEPT !.op = "lost"]
    /\ UNCHANGED <<backups, envFiles, clock, PACKAGE_MODE, reg, pc, saving, nops>>

StoreDamaged ==
    /\ store.state = "ok"
    /\ store' \in {BadJson, NotAnObject}
    /\ last' = [NoOp EXCEPT !.op = "damaged"]
    /\ UNCHANGED <<backups, envFiles, clock, PACKAGE_MODE, reg, pc, saving, nops>>

StoreNext ==
    Tick \/ StLoad \/ StSave \/ StBackup \/ StRecover \/ StRestore \/ StoreLost \/ StoreDamaged

SpecStore == StoreInit /\ [][StoreNext]_vars

\* ------------------------------------------------------------------ the allocator alone
\* find_available_port against stores holding every set of ports of a window,
\* for every range over that window and one port either side of it.

NameSeq == <<"a", "b", "c", "d", "e">>

WindowPorts == DefaultStart..(DefaultStart + MaxSpan - 1)

RangeBounds == (DefaultStart - 1)..(DefaultStart + MaxSpan)

\* a registry whose services hold exactly the ports of used
PortsConfig(used) ==
    [DefaultConfig EXCEPT
        !.services = [n \in {NameSeq[p - DefaultStart + 1] : p \in used} |->
                         NewServiceConfig(CmdRun,
                             CHOOSE p \in used : NameSeq[p - DefaultStart + 1] = n,
                             <<>>, <<>>)]]

PortsInit ==
    /\ PACKAGE_MODE = FALSE
    /\ store \in {MissingFile} \cup {OkFile(PortsConfig(used)) : used \in SUBSET WindowPorts}
    /\ backups = NoServices
    /\ envFiles = NoServices
    /\ clock = 0
    /\ pc = "idle"
    /\ saving = NoSave
    /\ reg = NoRace
    /\ nops = 0
    /\ last = NoOp

FindPort ==
    \E start \in RangeBounds, end \in RangeBounds :
        \E r \in {find_available_port(FS, [start |-> start, end |-> end])} :
            StDone("find_port", [start |-> start, end |-> end], r.fs, r.ret, r.exc)

PortsNext == FindPort

SpecPorts == PortsInit /\ [][PortsNext]_vars

\* ------------------------------------------------------------------ save_config step by step
\* The file system calls of one save_config, one per action, with the process
\* liable to be killed between any two of them.  A file opened for writing is
\* truncated, and does not parse until its content is complete.

SaveInit ==
    /\ PACKAGE_MODE = FALSE
    /\ store = MissingFile
    /\ backups = NoServices
    /\ envFiles = NoServices
    /\ clock = 0
    /\ pc = "idle"
    /\ saving = NoSave
    /\ reg = NoRace
    /\ nops = 0
    /\ last = NoOp

\* save_config(config) is called
SvBegin ==
    /\ pc \in {"idle", "crashed"}
    /\ \E config \in SaveInputs :
        saving' = [config |-> config, pre |-> store, stamp |-> clock, backed |-> FALSE]
    /\ pc' = "check"
    /\ last' = [NoOp EXCEPT !.op = "save_begin", !.pre = FS]
    /\ UNCHANGED <<store, backups, envFiles, clock, PACKAGE_MODE, reg, nops>>

\* CONFIG_FILE.exists(), load_config(), current_config.get("services"); on the
\* backup branch backup_config reads the clock for the file name
SvCheck ==
    /\ pc = "check"
    /\ IF NeedsBackup(FS)
       THEN pc' = "backup" /\ saving' = [saving EXCEPT !.stamp = clock]
       ELSE pc' = "open" /\ UNCHANGED saving
    /\ UNCHANGED <<store, backups, envFiles, clock, PACKAGE_MODE, reg, nops, last>>

\* shutil.copy2 opens the backup file for writing
SvBackupOpen ==
    /\ pc = "backup"
    /\ backups' = (saving.stamp :> BadJson) @@ backups
    /\ pc' = "copy"
    /\ UNCHANGED <<store, envFiles, clock, PACKAGE_MODE, reg, saving, nops, last>>

\* shutil.copy2 has copied the document
SvBackupCopy ==
    /\ pc = "copy"
    /\ backups' = (saving.stamp :> store) @@ backups
    /\ saving' = [saving EXCEPT !.backed = TRUE]
    /\ pc' = "open"
    /\ UNCHANGED <<store, envFiles, clock, PACKAGE_MODE, reg, nops, last>>

\* open(CONFIG_FILE, "w")
SvOpen ==
    /\ pc = "open"
    /\ store' = BadJson
    /\ pc' = "dump"
    /\ UNCHANGED <<backups, envFiles, clock, PACKAGE_MODE, reg, saving, nops, last>>

\* json.dump(config, f) and the close of the file
SvDump ==
    /\ pc = "dump"
    /\ store' = OkFile(saving.config)
    /\ pc' = "idle"
    /\ last' = [NoOp EXCEPT !.op = "save_steps", !.args = saving.config, !.ok = TRUE,
                            !.saves = 1, !.now = saving.stamp, !.pre = last.pre]
    /\ UNCHANGED <<backups, envFiles, clock, PACKAGE_MODE, reg, saving, nops>>

\* the process is killed inside save_config
SvCrash ==
    /\ pc \in {"check", "backup", "copy", "open", "dump"}
    /\ pc' = "crashed"
    /\ last' = [last EXCEPT !.op = "crash", !.msg = pc]
    /\ UNCHANGED <<store, backups, envFiles, clock, PACKAGE_MODE, reg, saving, nops>>

SaveNext ==
    Tick \/ SvBegin \/ SvCheck \/ SvBackupOpen \/ SvBackupCopy \/ SvOpen \/ SvDump \/ SvCrash

SpecSave == SaveInit /\ [][SaveNext]_vars

\* the steps, run to the end, leave what save_config computes in one piece
SaveStepsAgree ==
    last.op = "save_steps" =>
        /\ store = save_config(last.pre, last.args, last.now).store
        /\ backups = save_config(last.pre, last.args, last.now).backups

\* ------------------------------------------------------------------ two registrations at once
\* Two processes (two CLI invocations, or two web requests) each run
\* register_service(name, "run", None, None, "default", []) against the same
\* files.  There is no lock: the file system calls of the two interleave freely.
\* Each process goes through load_config (exists, create, read),
\* find_available_port (its own load_config: exists, create, read), save_config
\* (check and backup, open, dump) and create_env_file.

Procs == {1, 2}

RaceName(p) == IF p = 1 THEN "a" ELSE "b"

\* the local variables of one call: phase says which load_config is running
Called ==
    [phase |-> "load", pc |-> "exists", config |-> NoData, port |-> 0, dirty |-> FALSE,
     exc |-> "none", msg |-> ""]

\* the other registry on disk when the two calls begin: a service c on the first
\* port of the default range
EntryC == NewServiceConfig(CmdRun, DefaultStart, <<>>, <<>>)

RaceInit ==
    /\ PACKAGE_MODE \in BOOLEAN
    /\ store \in {MissingFile, OkFile(DefaultConfig),
                  OkFile([DefaultConfig EXCEPT !.services = [n \in {"c"} |-> EntryC]])}
    /\ backups = NoServices
    /\ envFiles = NoServices
    /\ clock = 0
    /\ pc = "idle"
    /\ saving = NoSave
    /\ nops = 0
    /\ reg = [p \in Procs |-> Called]
    /\ last = NoOp

\* initialize_config: CONFIG_FILE.exists()
RcExists(p) ==
    /\ reg[p].pc = "exists"
    /\ reg' = [reg EXCEPT ![p].pc = IF store.state = "missing" THEN "create" ELSE "read"]
    /\ UNCHANGED <<store, backups, envFiles, clock, PACKAGE_MODE, pc, saving, nops, last>>

\* initialize_config: the default document is written, over whatever is there by now
RcCreate(p) ==
    /\ reg[p].pc = "create"
    /\ store' = OkFile(DefaultConfig)
    /\ reg' = [reg EXCEPT ![p].pc = "read"]
    /\ UNCHANGED <<backups, envFiles, clock, PACKAGE_MODE, pc, saving, nops, last>>

\* load_config: open and json.load, then what the caller does with the registry:
\* register_service checks the name and the range, find_available_port scans
RcRead(p) ==
    /\ reg[p].pc = "read"
    /\ reg' = [reg EXCEPT ![p] =
           IF store.state # "ok"
           THEN [@ EXCEPT !.pc = "raised", !.exc = "JSONDecodeError"]
           ELSE IF reg[p].phase = "load"
           THEN IF RaceName(p) \in DOMAIN store.data.services
                THEN [@ EXCEPT !.pc = "failed", !.msg = "already exists"]
                ELSE IF "default" \notin DOMAIN store.data.port_ranges
                THEN [@ EXCEPT !.pc = "failed", !.msg = "not defined"]
                ELSE [@ EXCEPT !.phase = "find", !.pc = "exists", !.config = store.data]
           ELSE LET scan == ScanPorts(reg[p].config.port_ranges["default"].start,
                                      reg[p].config.port_ranges["default"].end,
                                      UsedPorts(store.data))
                IN  IF scan.found THEN [@ EXCEPT !.pc = "check", !.port = scan.port]
                    ELSE [@ EXCEPT !.pc = "failed", !.msg = "No available ports"]]
    /\ UNCHANGED <<store, backups, envFiles, clock, PACKAGE_MODE, pc, saving, nops, last>>

\* save_config up to the open: the backup of a document that holds services
\* (utils/config.py only)
RcCheck(p) ==
    /\ reg[p].pc = "check"
    /\ backups' = IF ~PACKAGE_MODE /\ NeedsBackup(FS) THEN backup_config(FS, clock).fs.backups
                  ELSE backups
    /\ reg' = [reg EXCEPT ![p].pc = "open"]
    /\ UNCHANGED <<store, envFiles, clock, PACKAGE_MODE, pc, saving, nops, last>>

\* open(CONFIG_FILE, "w") truncates the file
RcOpen(p) ==
    /\ reg[p].pc = "open"
    /\ store' = BadJson
    /\ reg' = [reg EXCEPT ![p].pc = "dump", ![p].dirty = FALSE]
    /\ UNCHANGED <<backups, envFiles, clock, PACKAGE_MODE, pc, saving, nops, last>>

\* the entry the call adds, and the registry it writes
RaceEntry(p) == NewServiceConfig(CmdRun, reg[p].port, <<>>, <<>>)

RaceConfig(p) ==
    [reg[p].config EXCEPT !.services = (RaceName(p) :> RaceEntry(p)) @@ reg[p].config.services]

\* json.dump and close: the text goes to the start of the file.  When the other
\* process wrote its text while this one had the file open, what is left is this
\* text, or this text followed by the tail of a longer one, which does not parse.
RcDump(p) ==
    /\ reg[p].pc = "dump"
    /\ store' \in (IF reg[p].dirty THEN {OkFile(RaceConfig(p)), BadJson}
                   ELSE {OkFile(RaceConfig(p))})
    /\ reg' = [q \in Procs |->
                  IF q = p THEN [reg[q] EXCEPT !.pc = "env"]
                  ELSE IF reg[q].pc = "dump" THEN [reg[q] EXCEPT !.dirty = TRUE]
                  ELSE reg[q]]
    /\ UNCHANGED <<backups, envFiles, clock, PACKAGE_MODE, pc, saving, nops, last>>

\* RcEnv that returns without writing the mirror record
RcEnvSkipped(p) ==
    /\ reg[p].pc = "env"
    /\ reg' = [reg EXCEPT ![p].pc = "done"]
    /\ UNCHANGED <<store, backups, envFiles, clock, PACKAGE_MODE, pc, saving, nops, last>>

\* create_env_file, and return True, port
RcEnv(p) ==
    /\ reg[p].pc = "env"
    /\ envFiles' = CreateEnv(PACKAGE_MODE, FS, RaceName(p), RaceEntry(p)).env
    /\ reg' = [reg EXCEPT ![p].pc = "done"]
    /\ UNCHANGED <<store, backups, clock, PACKAGE_MODE, pc, saving, nops, last>>

RaceNext ==
    \E p \in Procs :
        RcExists(p) \/ RcCreate(p) \/ RcRead(p) \/ RcCheck(p) \/ RcOpen(p) \/ RcDump(p)
            \/ RcEnv(p)

SpecRace == RaceInit /\ [][RaceNext]_vars

\* ------------------------------------------------------------------ the process commands
\* stop, restart-all, enable and disable of control_panel/cli.py, one command
\* at a time, against an empty disk and against a registry of two services.

\* --force, exit status of "systemctl stop", whether the call is cut short, and
\* whether lsof finds a process on the port
StopInputs ==
    {[force |-> FALSE, returncode |-> 0, interrupted |-> FALSE, found |-> FALSE],
     [force |-> FALSE, returncode |-> 0, interrupted |-> FALSE, found |-> TRUE],
     [force |-> TRUE, returncode |-> 1, interrupted |-> FALSE, found |-> TRUE],
     [force |-> FALSE, returncode |-> 1, interrupted |-> FALSE, found |-> FALSE],
     [force |-> FALSE, returncode |-> 0, interrupted |-> TRUE, found |-> TRUE]}

RestartInputs ==
    {[stop_rc |-> 0, failing |-> {}, detected |-> 0, found |-> TRUE],
     [stop_rc |-> 1, failing |-> {}, detected |-> PortD, found |-> FALSE],
     [stop_rc |-> 0, failing |-> {"a"}, detected |-> PortD, found |-> FALSE],
     [stop_rc |-> 1, failing |-> {"b"}, detected |-> 0, found |-> TRUE],
     [stop_rc |-> 0, failing |-> {"a", "b"}, detected |-> 0, found |-> FALSE]}

\* the orders in which a document can list the names of S
Orders(S) ==
    {o \in [1..Cardinality(S) -> S] : \A i, j \in 1..Cardinality(S) : i # j => o[i] # o[j]}

\* the disk as earlier runs left it: nothing, services a and b, and the same
\* after "enable a"
CliSeed(pkg) ==
    SeedFS(pkg) \cup {enable(fs, 0, pkg, "a", "ok").fs : fs \in SeedFS(pkg) \ {EmptyFS}}

CliInit ==
    /\ PACKAGE_MODE \in BOOLEAN
    /\ \E fs \in CliSeed(PACKAGE_MODE) :
        /\ store = fs.store
        /\ backups = fs.backups
        /\ envFiles = fs.env
    /\ clock = 0
    /\ pc = "idle"
    /\ saving = NoSave
    /\ reg = NoRace
    /\ nops = 0
    /\ last = NoOp

Stop ==
    \E name \in Names, in \in StopInputs :
        Done("stop", name, in, FS,
             stop(FS, clock, PACKAGE_MODE, name, in.force, in.returncode, in.interrupted,
                  in.found))

RestartAll ==
    \E enabled_only \in BOOLEAN, in \in RestartInputs :
      \E order \in Orders(DOMAIN load_config(FS).ret.services) :
        Done("restart_all", "", in @@
                                [enabled_only |-> enabled_only, order |-> order], FS,
             restart_all(FS, clock, PACKAGE_MODE, enabled_only, order, in))

Enable ==
    \E name \in Names, ctl \in ControllerAnswers :
        Done("enable", name, [ctl |-> ctl], FS, enable(FS, clock, PACKAGE_MODE, name, ctl))

Disable ==
    \E name \in Names, ctl \in ControllerAnswers :
        Done("disable", name, [ctl |-> ctl], FS, disable(FS, clock, PACKAGE_MODE, name, ctl))

CliNext == Stop \/ RestartAll \/ Enable \/ Disable

SpecCli == CliInit /\ [][CliNext]_vars

\* ------------------------------------------------------------------ a start beside other commands
\* One process runs control_service("a", "start") step by step: load_config,
\* the systemctl call, the settle delay with detect_service_port, the
\* reconciliation save and create_env_file (the last three in
\* control_panel/utils/service.py only).  Between any two of its steps other
\* invocations of the tool run register, unregister or edit to completion.

StartName == "a"

\* the local variables of the start: config is the registry it loaded
Starting == [pc |-> "load", config |-> NoData, detected |-> 0, saved |-> FALSE]

StaleInit ==
    /\ PACKAGE_MODE \in BOOLEAN
    /\ \E fs \in SeedFS(PACKAGE_MODE) \ {EmptyFS} :
        /\ store = fs.store
        /\ backups = fs.backups
        /\ envFiles = fs.env
    /\ clock = 0
    /\ pc = "idle"
    /\ saving = NoSave
    /\ nops = 0
    /\ reg = Starting
    /\ last = NoOp

\* config = load_config() and the lookup of the name
CsLoad ==
    /\ reg.pc = "load"
    /\ \E r \in {load_config(FS)} :
        /\ store' = r.fs.store
        /\ reg' = IF r.exc # "none" THEN [reg EXCEPT !.pc = "raised"]
                  ELSE IF StartName \notin DOMAIN r.ret.services
                  THEN [reg EXCEPT !.pc = "failed"]
                  ELSE [reg EXCEPT !.pc = "run", !.config = r.ret]
    /\ UNCHANGED <<backups, envFiles, clock, PACKAGE_MODE, pc, saving, nops, last>>

\* subprocess.run(["systemctl", "--user", "start", ...]) returns
CsRun ==
    /\ reg.pc = "run"
    /\ \E returncode \in {0, 1} :
        reg' = [reg EXCEPT !.pc = IF returncode # 0 THEN "failed"
                                  ELSE IF PACKAGE_MODE THEN "detect" ELSE "done"]
    /\ UNCHANGED <<store, backups, envFiles, clock, PACKAGE_MODE, pc, saving, nops, last>>

\* time.sleep(1) and detect_service_port(name)
CsDetect ==
    /\ reg.pc = "detect"
    /\ \E port \in {0, PortA, PortD} :
        reg' = IF port # 0 /\ port # reg.config.services[StartName].port
               THEN [reg EXCEPT !.pc = "save", !.detected = port]
               ELSE [reg EXCEPT !.pc = "done"]
    /\ UNCHANGED <<store, backups, envFiles, clock, PACKAGE_MODE, pc, saving, nops, last>>

\* the entry of the started service with the detected port
StartedEntry ==
    [reg.config.services[StartName] EXCEPT
        !.port = reg.detected,
        !.env = DictSet(reg.config.services[StartName].env, K_PORT, str(reg.detected))]

\* CsSave that reads the registry again and changes the port in what it finds
CsSaveFresh ==
    /\ reg.pc = "save"
    /\ store' = IF store.state = "ok" /\ StartName \in DOMAIN store.data.services
                THEN OkFile([store.data EXCEPT !.services[StartName] = StartedEntry])
                ELSE store
    /\ reg' = [reg EXCEPT !.pc = "env", !.saved = TRUE]
    /\ UNCHANGED <<backups, envFiles, clock, PACKAGE_MODE, pc, saving, nops, last>>

\* save_config(config): the registry loaded at the start, with the new port
CsSave ==
    /\ reg.pc = "save"
    /\ store' = save_config_pkg(FS, [reg.config EXCEPT !.services[StartName] = StartedEntry],
                                clock).store
    /\ reg' = [reg EXCEPT !.pc = "env", !.saved = TRUE]
    /\ UNCHANGED <<backups, envFiles, clock, PACKAGE_MODE, pc, saving, nops, last>>

\* create_env_file(name, config["services"][name]) and return True, None
CsEnv ==
    /\ reg.pc = "env"
    /\ envFiles' = create_env_file_pkg(FS, StartName, StartedEntry).env
    /\ reg' = [reg EXCEPT !.pc = "done"]
    /\ UNCHANGED <<store, backups, clock, PACKAGE_MODE, pc, saving, nops, last>>

\* the commands of the other invocations
OtherRegister ==
    \E in \in RegisterReadOnly :
        Done("register", "c", in, FS,
             register_service(FS, clock, PACKAGE_MODE, "c", CmdRun, in.port, in.working_dir,
                              in.range_name, in.env_vars))

OtherUnregister ==
    \E name \in {"a", "b"} :
        Done("unregister", name, [ctl |-> "ok"], FS,
             unregister_service(FS, clock, PACKAGE_MODE, name, "ok"))

OtherEdit ==
    \E name \in {"a", "b"}, in \in {[NoPatch EXCEPT !.command = CmdPy, !.path = DirW]} :
        Done("edit", name, in, FS,
             edit(FS, clock, PACKAGE_MODE, name, in.command, in.port, in.path, in.env_add,
                  in.env_remove, in.detect_port, in.detected))

StaleNext ==
    CsLoad \/ CsRun \/ CsDetect \/ CsSave \/ CsEnv \/ OtherRegister \/ OtherUnregister
        \/ OtherEdit

SpecStale == StaleInit /\ [][StaleNext]_vars

\* ------------------------------------------------------------------ the life of an entry
\* register, unregister, edit and the process control of control_service, one
\* command at a time, from a disk with no registry document and no mirror file.

LifeInit ==
    /\ PACKAGE_MODE \in BOOLEAN
    /\ store = MissingFile
    /\ backups = NoServices
    /\ envFiles = NoServices
    /\ clock = 0
    /\ pc = "idle"
    /\ saving = NoSave
    /\ reg = NoRace
    /\ nops = 0
    /\ last = NoOp

LifeNext == Register \/ Unregister \/ Edit \/ Control

SpecLife == LifeInit /\ [][LifeNext]_vars

\* ------------------------------------------------------------------ claims

\* the registry load_config returns for a document: the default one when it is missing
Effective(file) == IF file.state = "missing" THEN DefaultConfig ELSE file.data

NewBackups == DOMAIN backups \ DOMAIN last.pre.backups

\* C1: a save_config over a store that holds at least one service creates exactly one
\* new backup file, whose content is the store as it was before the save, and leaves
\* the new registry in the store.
C1_BackupBeforeDestroy ==
    (last.op = "save" /\ last.pre.store.state = "ok" /\ HasServices(last.pre.store.data))
        => /\ Cardinality(NewBackups) = 1
           /\ \A t \in NewBackups : backups[t] = last.pre.store
           /\ store = OkFile(last.args)

\* C2: a backup file, once written, is never deleted and never gets another content.
C2_BackupsAppendOnly ==
    [][\A t \in DOMAIN backups : t \in DOMAIN backups' /\ backups'[t] = backups[t]]_vars

\* the ports of [start, end] that no registered service holds
FreePorts(config, start, end) == {p \in start..end : p \notin UsedPorts(config)}

\* C4: find_available_port returns the smallest port of [start, end] that no registered
\* service holds, and raises ValueError exactly when there is none.
C4_AllocationCorrect ==
    last.op = "find_port" =>
        LET free == FreePorts(Effective(last.pre.store), last.args.start, last.args.end)
        IN  /\ (last.exc = "ValueError") <=> (free = {})
            /\ free # {} => /\ last.exc = "none"
                            /\ last.val \in free
                            /\ \A q \in free : last.val <= q

\* the scan passed two held ports and stopped before the end of the range
C4_Witness ==
    /\ last.op = "find_port"
    /\ last.exc = "none"
    /\ last.val = last.args.start + 2
    /\ last.val < last.args.end

\* the pre-save document can be read back from the primary store or from a backup
PreSaveReadable == store = saving.pre \/ \E t \in DOMAIN backups : backups[t] = saving.pre

\* C3: in a save_config over a store that parses and holds at least one service, the
\* backup copy is complete before the primary file is opened for writing, and in every
\* state inside the save, a crash included, the pre-save registry can be read from the
\* primary store or from a backup file.
C3_BackupBeforeOverwrite ==
    (pc # "idle" /\ saving.pre.state = "ok" /\ HasServices(saving.pre.data))
        => /\ PreSaveReadable
           /\ (pc = "dump" \/ (pc = "crashed" /\ store # saving.pre))
                  => (saving.backed /\ backups[saving.stamp] = saving.pre)

\* killed after the primary file was truncated: the registry survives in the backup only
C3_Witness ==
    /\ pc = "crashed"
    /\ last.msg = "dump"
    /\ HasServices(saving.pre.data)
    /\ store = BadJson
    /\ backups[saving.stamp] = saving.pre

\* the stored entry of a service
Entry(n) == store.data.services[n]

\* env["PORT"] == str(port)
PortSynced(e) == DictHas(e.env, K_PORT) /\ DictGet(e.env, K_PORT) = str(e.port)

\* the text has a line KEY=... for this key
HasLine(text, key) ==
    \E i \in 1..Len(readlines(text)) :
        /\ HasEq(strip(readlines(text)[i]))
        /\ split1(strip(readlines(text)[i]))[1] = key

\* C5: recover_config writes a registry whose services are exactly the records of
\* active units that carry COMMAND and PORT, each with enabled as is-enabled answers;
\* it returns the number of services written, 0 included, without error.
C5_RecoverySelectivity ==
    last.op = "recover" =>
        /\ last.exc = "none"
        /\ store.state = "ok"
        /\ DOMAIN store.data.services =
               {n \in DOMAIN last.pre.env \cap last.args.active :
                    HasLine(last.pre.env[n], K_COMMAND) /\ HasLine(last.pre.env[n], K_PORT)}
        /\ \A n \in DOMAIN store.data.services : Entry(n).enabled = (n \in last.args.enabled)
        /\ last.val = Cardinality(DOMAIN store.data.services)

\* C6: the mirror record register writes, read back by the parser of recovery, gives
\* the command, port, working directory and env map of the registered entry.
C6_MirrorRoundTrip ==
    (last.op = "register" /\ last.ok) =>
        LET e == Entry(last.name)
            r == ParseEnvFile(envFiles[last.name])
        IN  /\ r.exc = "none"
            /\ r.command = e.command
            /\ r.port = e.port
            /\ r.working_dir = e.working_dir
            /\ DictItems(r.env) = DictItems(e.env)

\* the edit sets the port: an explicit --port, or --detect-port with a port detected
EditSetsPort(a) == IF a.detect_port THEN a.detected # 0 ELSE a.port # 0

\* control_service reconciled: a start that succeeded, a port detected, another one
\* stored, and the call returned
Reconciles ==
    /\ last.op = "control"
    /\ last.ok
    /\ PACKAGE_MODE
    /\ last.args.action = "start"
    /\ last.args.returncode = 0
    /\ last.args.detected # 0
    /\ last.name \in DOMAIN Effective(last.pre.store).services
    /\ last.args.detected # Effective(last.pre.store).services[last.name].port

\* C7: after a successful register, after an edit that sets the port, and after the
\* reconciliation that follows a successful start, env["PORT"] == str(port).
C7_PortEnvConsistent ==
    /\ (last.op = "register" /\ last.ok) => PortSynced(Entry(last.name))
    /\ (last.op = "edit" /\ last.ok /\ EditSetsPort(last.args)) => PortSynced(Entry(last.name))
    /\ Reconciles => PortSynced(Entry(last.name))

\* a start reconciled the port of an entry whose env had lost its PORT key
C7_Witness ==
    /\ Reconciles
    /\ ~DictHas(last.pre.store.data.services[last.name].env, K_PORT)
    /\ Entry(last.name).port = last.args.detected
    /\ PortSynced(Entry(last.name))

\* C8: in every reachable store every entry has env["PORT"] == str(port).
C8_EveryEntryPortSynced ==
    store.state = "ok" => \A n \in DOMAIN store.data.services : PortSynced(Entry(n))

\* the three failures of register_service, read off the state before the call
NameTaken == last.name \in DOMAIN Effective(last.pre.store).services

RangeUnknown ==
    last.args.port = 0 /\ last.args.range_name \notin DOMAIN Effective(last.pre.store).port_ranges

RangeFull ==
    /\ last.args.port = 0
    /\ last.args.range_name \in DOMAIN Effective(last.pre.store).port_ranges
    /\ FreePorts(Effective(last.pre.store),
                 Effective(last.pre.store).port_ranges[last.args.range_name].start,
                 Effective(last.pre.store).port_ranges[last.args.range_name].end) = {}

\* C9: register_service returns (False, message) for a name already registered, for
\* an unknown range and for a full range when no port is given, and then the
\* services of the store, the mirror files and the backups are as before the call.
C9_RegisterFailureNoChange ==
    last.op = "register" =>
        /\ NameTaken => (~last.ok /\ last.msg = "already exists")
        /\ (~NameTaken /\ RangeUnknown) => (~last.ok /\ last.msg = "not defined")
        /\ (~NameTaken /\ RangeFull) => (~last.ok /\ last.msg = "No available ports")
        /\ (NameTaken \/ RangeUnknown \/ RangeFull) =>
               /\ last.exc = "none"
               /\ Effective(store).services = Effective(last.pre.store).services
               /\ envFiles = last.pre.env
               /\ backups = last.pre.backups

\* a register without a port found every port of its range taken
C9_Witness ==
    /\ last.op = "register"
    /\ ~NameTaken
    /\ RangeFull
    /\ last.msg = "No available ports"

\* C10: when register_service returns (True, p) the store holds the new name with
\* port p and enabled false beside the unchanged earlier services; p is the explicit
\* port, or else the first free port of the range; one save was made, and the mirror
\* record of the name has the line PORT=p.
C10_RegisterSuccess ==
    (last.op = "register" /\ last.ok) =>
        LET pre == Effective(last.pre.store)
            lines == readlines(envFiles[last.name])
        IN  /\ store.state = "ok"
            /\ last.name \notin DOMAIN pre.services
            /\ DOMAIN store.data.services = DOMAIN pre.services \cup {last.name}
            /\ \A m \in DOMAIN pre.services : Entry(m) = pre.services[m]
            /\ Entry(last.name).port = last.val
            /\ Entry(last.name).enabled = FALSE
            /\ IF last.args.port # 0 THEN last.val = last.args.port
               ELSE /\ last.args.range_name \in DOMAIN pre.port_ranges
                    /\ LET free == FreePorts(pre, pre.port_ranges[last.args.range_name].start,
                                             pre.port_ranges[last.args.range_name].end)
                       IN  last.val \in free /\ \A q \in free : last.val <= q
            /\ last.saves = 1
            /\ last.name \in DOMAIN envFiles
            /\ \E i \in 1..Len(lines) : lines[i] = EnvLine(K_PORT, str(last.val))

\* a port was assigned past two taken ones, beside two earlier services
C10_Witness ==
    /\ last.op = "register"
    /\ last.ok
    /\ last.args.port = 0
    /\ last.val = DefaultStart + 2
    /\ Cardinality(DOMAIN store.data.services) = 3

\* C11: after a successful register no other service of the registry has the port
\* of the service just registered.
C11_PortUniqueAtRegistration ==
    (last.op = "register" /\ last.ok) =>
        \A m \in DOMAIN store.data.services \ {last.name} :
            Entry(m).port # Entry(last.name).port

\* the name of the last operation was registered when the operation began
WasRegistered == last.name \in DOMAIN Effective(last.pre.store).services

\* the last operation left the store, the mirror files and the backups as they were
NothingWritten ==
    /\ store = last.pre.store
    /\ envFiles = last.pre.env
    /\ backups = last.pre.backups

\* C12: an unregister of a registered name succeeds, removes the entry and deletes
\* the mirror record; an unregister of the same name right after a successful one
\* returns not-found, sends nothing to the controller, saves nothing, and leaves
\* the store, the mirror files and the backups as the first call left them.
C12_UnregisterTwice ==
    last.op = "unregister" =>
        /\ WasRegistered =>
               /\ last.ok
               /\ last.name \notin DOMAIN store.data.services
               /\ last.name \notin DOMAIN envFiles
        /\ (last.prev = [op |-> "unregister", name |-> last.name, ok |-> TRUE]) =>
               /\ ~last.ok
               /\ last.msg = "not found"
               /\ last.exc = "none"
               /\ last.log = <<>>
               /\ last.saves = 0
               /\ NothingWritten

\* C13: unregister_service of a registered name returns success, with the entry
\* removed from the saved store and the mirror record deleted, whether the stop and
\* disable requests succeed, fail, or cannot be made at all.
C13_UnregisterWhateverController ==
    (last.op = "unregister" /\ WasRegistered) =>
        \A ctl \in ControllerAnswers :
            last.args.ctl = ctl =>
                /\ last.ok
                /\ last.exc = "none"
                /\ last.saves = 1
                /\ store.state = "ok"
                /\ last.name \notin DOMAIN store.data.services
                /\ last.name \notin DOMAIN envFiles

\* the mirror record of a name in a set of mirror files: its text, <<>> when absent
MirrorOf(files, n) == IF n \in DOMAIN files THEN files[n] ELSE <<>>

\* C14: register, edit and control_service write the mirror record only after
\* save_config has returned, and when the save raises, the mirror record of the
\* service is what it was before the operation.
C14_MirrorAfterCommit ==
    last.op \in {"register", "edit", "control"} =>
        /\ \A i \in 1..Len(last.log) :
               last.log[i] = "env" => \E j \in 1..(i - 1) : last.log[j] = "save"
        /\ last.exc = "PermissionError" =>
               /\ last.saves = 0
               /\ (last.name \in DOMAIN envFiles) = (last.name \in DOMAIN last.pre.env)
               /\ MirrorOf(envFiles, last.name) = MirrorOf(last.pre.env, last.name)

\* the save of an edit that sets a new port raised, the old mirror record is in place
C14_Witness ==
    /\ last.op = "edit"
    /\ last.exc = "PermissionError"
    /\ last.args.port # 0
    /\ last.args.port # Effective(last.pre.store).services[last.name].port
    /\ last.name \in DOMAIN envFiles

\* C15: load_config on a missing document creates it with no services and the one
\* range default = 8000..9000 and returns that registry; on a document that exists
\* and parses it returns the content and leaves the file as it is.
C15_LoadCreatesDefault ==
    last.op = "load" =>
        /\ last.pre.store.state = "missing" =>
               /\ last.exc = "none"
               /\ store.state = "ok"
               /\ store.data = last.args
               /\ DOMAIN last.args.services = {}
               /\ DOMAIN last.args.port_ranges = {"default"}
               /\ last.args.port_ranges["default"] = [start |-> 8000, end |-> 9000]
        /\ last.pre.store.state = "ok" =>
               /\ last.exc = "none"
               /\ last.args = last.pre.store.data
               /\ store = last.pre.store
        /\ backups = last.pre.backups
        /\ envFiles = last.pre.env

\* load_config has just created the document after the earlier one was lost
C15_Witness ==
    /\ last.op = "load"
    /\ last.pre.store.state = "missing"
    /\ last.pre.backups # NoServices
    /\ store = OkFile(DefaultConfig)

\* the document exists and is not the registry object: it does not parse, or it
\* parses to something else
Corrupt(file) == file.state \in {"badjson", "notdict"}

\* C16: save_config over an existing corrupt document creates no backup, raises
\* nothing, and leaves the new registry in the store.
C16_SaveOverCorruptStore ==
    (last.op = "save" /\ Corrupt(last.pre.store)) =>
        /\ last.exc = "none"
        /\ backups = last.pre.backups
        /\ store = OkFile(last.args)

\* C17: whenever an operation overwrites a store that held at least one service, a
\* backup file equal to the store before the write exists, whichever save_config
\* the entry point imported.
C17_EveryWriteProtected ==
    (/\ last.op \in {"register", "unregister", "edit", "add_range", "control", "recover"}
     /\ last.saves >= 1
     /\ last.pre.store.state = "ok"
     /\ HasServices(last.pre.store.data))
        => \E t \in DOMAIN backups : backups[t] = last.pre.store

\* the port stored for the name of the last operation when the operation began
StoredPortBefore == Effective(last.pre.store).services[last.name].port

\* C18: after control_service(name, "start") succeeded at the controller, a detected
\* port other than the stored one is written to the stored port, to env["PORT"] and
\* to the mirror record; with no port detected, or the stored one, the store and
\* the mirror files are unchanged.
C18_StartReconciliation ==
    (/\ last.op = "control"
     /\ last.args.action = "start"
     /\ last.args.returncode = 0
     /\ ~last.args.interrupted
     /\ last.pre.writable
     /\ WasRegistered)
        => IF last.args.detected # 0 /\ last.args.detected # StoredPortBefore
           THEN /\ last.ok
                /\ Entry(last.name).port = last.args.detected
                /\ PortSynced(Entry(last.name))
                /\ last.name \in DOMAIN envFiles
                /\ ParseEnvFile(envFiles[last.name]).port = last.args.detected
           ELSE /\ last.ok
                /\ store = last.pre.store
                /\ envFiles = last.pre.env

\* the controller did not complete the request as asked: the action is no start,
\* the command was rejected, or the call was cut short
NoStartCompleted ==
    \/ last.args.action \in {"stop", "restart"}
    \/ last.args.returncode # 0
    \/ last.args.interrupted

\* C19: control_service with stop or restart, with a start the controller rejects,
\* or with a controller call that is interrupted, leaves store, mirror files and
\* backups unchanged, as does an unregister whose controller call does not return;
\* a start saves at most once, and only after its controller call returned success.
\* (For a name that is not registered no controller call is made; load_config may
\* then create the missing document, with the registry unchanged.)
C19_NoMutationWhileWaiting ==
    /\ (last.op = "control" /\ NoStartCompleted) =>
           /\ last.saves = 0
           /\ Effective(store) = Effective(last.pre.store)
           /\ WasRegistered => store = last.pre.store
           /\ envFiles = last.pre.env
           /\ backups = last.pre.backups
    /\ (last.op = "unregister" /\ WasRegistered /\ last.args.ctl = "unreachable") =>
           (last.saves = 0 /\ NothingWritten)
    /\ (last.op = "control" /\ last.args.action = "start") =>
           /\ last.saves <= 1
           /\ \A i \in 1..Len(last.log) :
                  last.log[i] = "save" =>
                      /\ last.args.returncode = 0
                      /\ ~last.args.interrupted
                      /\ \E j \in 1..(i - 1) : last.log[j] = "start"

\* a start was interrupted while the service listened on another port than the stored one
C19_Witness ==
    /\ last.op = "control"
    /\ PACKAGE_MODE
    /\ WasRegistered
    /\ last.args.action = "start"
    /\ last.args.interrupted
    /\ last.args.detected # 0
    /\ last.args.detected # StoredPortBefore
    /\ last.log = <<"start">>

\* the number of times the command of the requested action is in the log
ActionCommands == Cardinality({i \in 1..Len(last.log) : last.log[i] = last.args.action})

C21_RecoveryFreshRegistry ==
    last.op = "recover" =>
        /\ store.state = "ok"
        /\ store.data.port_ranges = DefaultConfig.port_ranges
        /\ DOMAIN store.data.services \subseteq DOMAIN last.pre.env \cap last.args.active
        /\ store.data.services =
               recover_from_env_files(last.pre, last.args.active, last.args.enabled).ret
        /\ last.pre.store.state # "missing" =>
               \E t \in DOMAIN backups : backups[t] = last.pre.store

\* the values of the lines KEY=value of a mirror record that have this key
LineValues(text, key) ==
    {split1(strip(readlines(text)[i]))[2] :
        i \in {j \in 1..Len(readlines(text)) :
                  /\ HasEq(strip(readlines(text)[j]))
                  /\ split1(strip(readlines(text)[j]))[1] = key}}

\* a port number written in decimal, other than 0
UsablePort(value) == IsDigits(value) /\ int(value) # 0

\* the record has a COMMAND and a PORT, and its PORT values are usable ports
WellFormed(text) ==
    /\ \E v \in LineValues(text, K_COMMAND) : v # <<>>
    /\ LineValues(text, K_PORT) # {}
    /\ \A v \in LineValues(text, K_PORT) : UsablePort(v)

\* C22: recovery leaves a malformed mirror record of an active unit out of the
\* registry it writes, and recovers and saves the well-formed records of the other
\* active units all the same.
C22_MalformedRejectedIndividually ==
    last.op = "recover" =>
        /\ last.exc = "none"
        /\ store.state = "ok"
        /\ DOMAIN store.data.services =
               {n \in DOMAIN last.pre.env \cap last.args.active : WellFormed(last.pre.env[n])}

\* the text has this line
InRecord(text, line) == \E i \in 1..Len(readlines(text)) : readlines(text)[i] = line

\* C23: after a successful register and after a successful edit the mirror record of
\* the service has the line COMMAND=<stored command>, the line PORT=<stored port>,
\* the line WORKING_DIR=<stored working directory> when that is not empty, and a
\* line KEY=value for every key of the stored env map.
C23_MirrorIsProjection ==
    (last.op \in {"register", "edit"} /\ last.ok) =>
        /\ last.name \in DOMAIN envFiles
        /\ InRecord(envFiles[last.name], EnvLine(K_COMMAND, Entry(last.name).command))
        /\ InRecord(envFiles[last.name], EnvLine(K_PORT, str(Entry(last.name).port)))
        /\ Entry(last.name).working_dir # <<>> =>
               InRecord(envFiles[last.name],
                        EnvLine(K_WORKING_DIR, Entry(last.name).working_dir))
        /\ \A k \in DictKeys(Entry(last.name).env) :
               InRecord(envFiles[last.name], EnvLine(k, DictGet(Entry(last.name).env, k)))

\* both calls returned (True, port)
BothRegistered == \A p \in Procs : reg[p].pc = "done"

\* the two names are in the registry with the same port
DuplicatePorts ==
    /\ store.state = "ok"
    /\ \A p \in Procs : RaceName(p) \in DOMAIN store.data.services
    /\ Entry(RaceName(1)).port = Entry(RaceName(2)).port

\* C24 as stated: when two racing registrations were assigned the same port from
\* the same range and both returned, both services are in the registry with that
\* port.
C24_RaceDuplicatesPorts ==
    (BothRegistered /\ reg[1].port = reg[2].port) => DuplicatePorts

\* C24 as amended: in no interleaving of the two calls are both services in the
\* registry with the same port; when both calls returned the same port, the
\* registry that parses holds the entry of one of the two only (the last writer's),
\* and the mirror records of both carry that port.
C24_RaceLosesEntry ==
    /\ ~DuplicatePorts
    /\ (BothRegistered /\ reg[1].port = reg[2].port) =>
           /\ store.state = "ok" =>
                  Cardinality({p \in Procs : RaceName(p) \in DOMAIN store.data.services}) = 1
           /\ \A p \in Procs :
                  /\ RaceName(p) \in DOMAIN envFiles
                  /\ InRecord(envFiles[RaceName(p)], EnvLine(K_PORT, str(reg[p].port)))

\* both calls returned port 8001 beside service c; the registry holds c and b only
C24_Witness ==
    /\ BothRegistered
    /\ reg[1].port = DefaultStart + 1
    /\ reg[2].port = DefaultStart + 1
    /\ store.state = "ok"
    /\ DOMAIN store.data.services = {"b", "c"}
    /\ DOMAIN envFiles = {"a", "b"}

\* C25: a call of find_available_port leaves the primary store, the mirror files
\* and the backups as they were, whether or not the primary store exists, and a
\* second call with the same range returns the same port.
C25_AllocatorPure ==
    last.op = "find_port" =>
        /\ store = last.pre.store
        /\ envFiles = last.pre.env
        /\ backups = last.pre.backups
        /\ find_available_port(FS, last.args).ret = last.val
        /\ find_available_port(FS, last.args).exc = last.exc

\* C26: save_config over a primary store that does not exist, or that exists with
\* zero services, creates no backup file and leaves the new registry in the store.
C26_NoBackupWithoutServices ==
    (/\ last.op = "save"
     /\ \/ last.pre.store.state = "missing"
        \/ last.pre.store.state = "ok" /\ DOMAIN last.pre.store.data.services = {})
        => /\ last.exc = "none"
           /\ backups = last.pre.backups
           /\ store = OkFile(last.args)

\* a registry with services was saved over an existing one without services, and
\* no backup file was added to the ones already there
C26_Witness ==
    /\ last.op = "save"
    /\ last.pre.store.state = "ok"
    /\ DOMAIN last.pre.store.data.services = {}
    /\ DOMAIN last.args.services # {}
    /\ store = OkFile(last.args)
    /\ backups # NoServices
    /\ backups = last.pre.backups

\* C27: backup_config on an existing primary document returns the path of a backup
\* file whose content is that document and leaves the document as it is; when the
\* primary document does not exist it returns None, creates no backup file and
\* does not create the document.
C27_BackupVerbatim ==
    last.op = "backup" =>
        IF last.pre.store.state # "missing"
        THEN /\ last.val = 1
             /\ last.now \in DOMAIN backups
             /\ backups[last.now] = last.pre.store
             /\ store = last.pre.store
        ELSE /\ last.val = 0
             /\ backups = last.pre.backups
             /\ store = MissingFile

\* backup_config was called after the document was lost: nothing to copy, and the
\* earlier backups stay
C27_Witness ==
    /\ last.op = "backup"
    /\ last.pre.store.state = "missing"
    /\ last.val = 0
    /\ store = MissingFile
    /\ backups # NoServices

\* C28: after save_config(R) has returned, load_config returns R and leaves the
\* document as it is, whatever the store held before the save: nothing, a registry
\* without or with services, or a corrupt document; the document json.dump writes
\* for R is read back by json.load as R.
C28_SaveLoadRoundTrip ==
    (last.op = "save" /\ last.exc = "none") =>
        /\ load_config(FS).exc = "none"
        /\ load_config(FS).ret = last.args
        /\ load_config(FS).fs.store = store
        /\ json_load(json_dump(last.args)) = last.args

\* a registry with two services was saved over a document that did not parse
C28_Witness ==
    /\ last.op = "save"
    /\ last.exc = "none"
    /\ last.pre.store.state = "badjson"
    /\ DOMAIN last.args.services = {"a", "b"}
    /\ load_config(FS).ret = last.args

\* the env keys an edit names: those of --env-add and --env-remove, and PORT
MentionedKeys(a) ==
    {split1(a.env_add[i])[1] : i \in {j \in 1..Len(a.env_add) : HasEq(a.env_add[j])}}
        \cup {a.env_remove[i] : i \in 1..Len(a.env_remove)}
        \cup {K_PORT}

\* the entry of the name of the last operation when the operation began
EntryBefore == Effective(last.pre.store).services[last.name]

C30_RangesWellFormed ==
    /\ store.state = "ok" =>
           \A r \in DOMAIN store.data.port_ranges :
               store.data.port_ranges[r].end > store.data.port_ranges[r].start
    /\ (last.op = "add_range" /\ last.args.end <= last.args.start) =>
           /\ ~last.ok
           /\ last.exc = "none"
           /\ last.saves = 0
           /\ last.log = <<>>
           /\ NothingWritten

\* a range that ends before it starts was refused while there was no primary
\* document, and there is still none
C30_Witness ==
    /\ last.op = "add_range"
    /\ last.args.end < last.args.start
    /\ ~last.ok
    /\ last.pre.store.state = "missing"
    /\ store = MissingFile

\* the name of the last command was in the registry when the command began
WasKnown == last.name \in DOMAIN Effective(last.pre.store).services

\* the port stored for that name when the command began
StoredPort == Effective(last.pre.store).services[last.name].port

Selected ==
    {n \in DOMAIN Effective(last.pre.store).services :
        ~last.args.enabled_only \/ Effective(last.pre.store).services[n].enabled}

\* the command a call of restart-all sends, as the log shows it
CallCmd(call) == IF call.verb = "kill" THEN KillCmd(call.port) ELSE call.verb

\* the log without the port detection and the reconciliation of a start
ControlLog == SelectSeq(last.log, LAMBDA c : c \notin {"show", "lsof", "save", "env"})

\* C32: restart-all makes its calls in groups of three, stop, port-kill (on the
\* stored port), start, one group for each selected service and none for any
\* other; the services it reports as failed are exactly the selected ones whose
\* start failed, each once; a failed start does not end the loop; with no
\* registered or no selected service no command is sent at all.
C32_RestartAllVisitsEach ==
    last.op = "restart_all" =>
        LET calls == last.val.calls
            k == Cardinality(Selected)
        IN  /\ last.exc = "none"
            /\ Len(calls) = 3 * k
            /\ \A i \in 1..k :
                   /\ calls[3 * i - 2].verb = "stop"
                   /\ calls[3 * i - 1].verb = "kill"
                   /\ calls[3 * i].verb = "start"
                   /\ calls[3 * i - 2].name = calls[3 * i].name
                   /\ calls[3 * i - 1].name = calls[3 * i].name
                   /\ calls[3 * i - 1].port =
                          Effective(last.pre.store).services[calls[3 * i].name].port
            /\ {calls[3 * i].name : i \in 1..k} = Selected
            /\ ControlLog = [i \in 1..Len(calls) |-> CallCmd(calls[i])]
            /\ {last.val.failed[i] : i \in 1..Len(last.val.failed)} =
                   Selected \cap last.args.failing
            /\ Len(last.val.failed) = Cardinality(Selected \cap last.args.failing)
            /\ Selected = {} => last.log = <<>>

\* restart-all over a then b where the start of a failed: b was restarted all
\* the same and a alone is reported
C32_Witness ==
    /\ last.op = "restart_all"
    /\ ~last.args.enabled_only
    /\ last.args.failing = {"a"}
    /\ last.args.order = <<"a", "b">>
    /\ Len(last.val.calls) = 6
    /\ last.val.calls[6] = [verb |-> "start", name |-> "b", port |-> PortB]
    /\ last.val.failed = <<"a">>

\* the registry process p loaded at the start of its call, with its own entry added
SnapshotPlusOwn(p) ==
    [services |-> [n \in DOMAIN reg[p].config.services \cup {RaceName(p)} |->
                      IF n = RaceName(p)
                      THEN NewServiceConfig(CmdRun, reg[p].port, <<>>, <<>>)
                      ELSE reg[p].config.services[n]],
     port_ranges |-> reg[p].config.port_ranges]

\* C33: last writer wins.  Once both racing register calls have returned
\* success, a mirror record exists for each of the two names, and a primary
\* store that parses is the registry one of the two calls had loaded with that
\* call's own entry added: it holds the other name only if that call loaded
\* after the other had saved.  (The interleaving in which it holds one name
\* only is the state of C33_Witness.)
C33_LastWriterWins ==
    BothRegistered =>
        /\ \A p \in Procs : RaceName(p) \in DOMAIN envFiles
        /\ store.state \in {"ok", "badjson"}
        /\ store.state = "ok" =>
               /\ \E p \in Procs : store.data = SnapshotPlusOwn(p)
               /\ \E p \in Procs : RaceName(p) \in DOMAIN store.data.services
               /\ \A p, q \in Procs :
                      (store.data = SnapshotPlusOwn(p) /\ q # p
                       /\ RaceName(q) \notin DOMAIN reg[p].config.services)
                          => RaceName(q) \notin DOMAIN store.data.services

\* both calls returned success, the store parses and holds a but not b, and the
\* mirror records of a and b are both on disk
C33_Witness ==
    /\ \A p \in Procs : reg[p].pc = "done" /\ reg[p].exc = "none" /\ reg[p].port # 0
    /\ store.state = "ok"
    /\ "a" \in DOMAIN store.data.services
    /\ "b" \notin DOMAIN store.data.services
    /\ {"a", "b"} \subseteq DOMAIN envFiles

\* C34: the reconciliation save of a start writes the registry that the start
\* loaded before the controller call, changed only in the port of the started
\* service: whatever other invocations registered, unregistered or edited in
\* the store since that load is overwritten (a service unregistered meanwhile is
\* back in the store, and the save does not bring its mirror record back).
C34_StaleSnapshotSaved ==
    [][(reg.pc = "save" /\ reg'.pc = "env") =>
          /\ store'.state = "ok"
          /\ DOMAIN store'.data.services = DOMAIN reg.config.services
          /\ \A n \in DOMAIN reg.config.services \ {StartName} :
                 store'.data.services[n] = reg.config.services[n]
          /\ store'.data.services[StartName].port = reg.detected
          /\ store'.data.services[StartName].command =
                 reg.config.services[StartName].command
          /\ store'.data.port_ranges = reg.config.port_ranges
          /\ envFiles' = envFiles]_vars

\* service b was unregistered by another invocation while the start of a was
\* waiting; after the reconciliation save b is in the store again and b.env is gone
C34_Witness ==
    /\ reg.saved
    /\ last.op = "unregister"
    /\ last.name = "b"
    /\ last.ok
    /\ store.state = "ok"
    /\ "b" \in DOMAIN store.data.services
    /\ "b" \notin DOMAIN envFiles

\* C35: after any sequence of register, unregister, edit and control commands
\* run one at a time from a disk with no registry document and no mirror file,
\* the names that have a mirror record are exactly the names registered in the
\* primary store.
C35_MirrorTracksRegistration ==
    /\ store.state \in {"missing", "ok"}
    /\ DOMAIN envFiles = DOMAIN Effective(store).services

\* a service was registered and then unregistered: its mirror record, on disk
\* before the unregister, is gone with its entry
C35_Witness ==
    /\ last.op = "unregister"
    /\ last.ok
    /\ last.prev.op = "register"
    /\ last.prev.ok
    /\ last.name \in DOMAIN last.pre.env
    /\ last.name \notin DOMAIN envFiles
    /\ last.name \notin DOMAIN Effective(store).services

\* name has neither an entry in the registry nor a mirror record
Gone(file, files, name) ==
    /\ name \notin DOMAIN Effective(file).services
    /\ name \notin DOMAIN files

\* C36: an unregister that succeeded leaves the name with neither entry nor
\* mirror record, and no later command but a register of that name changes
\* that: in particular recover_config, whatever units are active or enabled
\* (the unit of the name among them), does not place the name in the registry.
C36_NoResurrection ==
    /\ (last.op = "unregister" /\ last.ok) => Gone(store, envFiles, last.name)
    /\ \A n \in Names :
           (/\ last.op # "none"
            /\ Gone(last.pre.store, last.pre.env, n)
            /\ ~(last.op = "register" /\ last.name = n))
               => Gone(store, envFiles, n)
    /\ (last.op = "recover" /\ last.prev.op = "unregister" /\ last.prev.ok)
           => last.prev.name \notin DOMAIN Effective(store).services

\* service a was unregistered and its unit stayed active; the recovery that
\* followed rebuilt the registry from the mirror with b in it and without a
C36_Witness ==
    /\ last.op = "recover"
    /\ last.ok
    /\ last.val = 1
    /\ last.prev.op = "unregister"
    /\ last.prev.ok
    /\ last.prev.name = "a"
    /\ "a" \in last.args.active
    /\ DOMAIN Effective(store).services = {"b"}

\* C37: after a successful edit with --detect-port, a detected port is the stored
\* port whatever --port said; when nothing was detected the stored port is the
\* one from before the edit, also when --port was given; and in both cases
\* env["PORT"] is the text of the stored port.
C37_DetectPortPrecedence ==
    (last.op = "edit" /\ last.ok /\ last.args.detect_port) =>
        /\ last.args.detected # 0 => Entry(last.name).port = last.args.detected
        /\ last.args.detected = 0 => Entry(last.name).port = EntryBefore.port
        /\ DictHas(Entry(last.name).env, K_PORT)
        /\ DictGet(Entry(last.name).env, K_PORT) = str(Entry(last.name).port)

\* edit --detect-port --port 8002 on a service stored with port 8000, nothing
\* detected: the port is still 8000 and so is env["PORT"]
C37_Witness ==
    /\ last.op = "edit"
    /\ last.ok
    /\ last.args.detect_port
    /\ last.args.detected = 0
    /\ last.args.port = PortC
    /\ EntryBefore.port = PortA
    /\ Entry(last.name).port = PortA
    /\ DictGet(Entry(last.name).env, K_PORT) = str(PortA)

\* what the command op (enable or disable) of a registered name has done once its
\* systemctl command returned: one command, one save, the flag and nothing else
FlagSet(op, flag) ==
    (last.op = op /\ WasKnown /\ last.args.ctl # "unreachable") =>
        /\ last.ok
        /\ Entry(last.name) = [EntryBefore EXCEPT !.enabled = flag]
        /\ \A n \in DOMAIN Effective(last.pre.store).services \ {last.name} :
               Entry(n) = Effective(last.pre.store).services[n]
        /\ DOMAIN store.data.services = DOMAIN Effective(last.pre.store).services
        /\ store.data.port_ranges = Effective(last.pre.store).port_ranges
        /\ envFiles = last.pre.env
        /\ last.log = <<op, "save">>

SavedOverBackup ==
    /\ last.op = "save"
    /\ last.ok
    /\ last.pre.store.state = "ok"
    /\ HasServices(last.pre.store.data)

\* C39: when save_config has just overwritten registry R after taking its
\* backup, a restore from that backup file makes load_config return R; a
\* restore from a backup file that save_config created (a registry with
\* services) leaves load_config returning the registry of that file; a restore
\* from a file that is missing, does not parse, is no object or lacks the
\* services key writes nothing: store, backups and mirror files are as before.
C39_BackupRestoreRoundTrip ==
    /\ SavedOverBackup =>
           /\ last.now \in DOMAIN backups
           /\ backups[last.now] = last.pre.store
           /\ restore(FS, clock, PACKAGE_MODE, backups[last.now]).ok
           /\ load_config(restore(FS, clock, PACKAGE_MODE, backups[last.now]).fs).ret
                  = last.pre.store.data
    /\ (/\ last.op = "restore"
        /\ last.args.state = "ok"
        /\ HasServices(last.args.data)
        /\ \E t \in DOMAIN last.pre.backups : last.pre.backups[t] = last.args) =>
           /\ load_config(FS).exc = "none"
           /\ load_config(FS).ret = last.args.data
    /\ (last.op = "restore" /\ last.args.state # "ok") =>
           /\ ~last.ok
           /\ last.log = <<>>
           /\ store = last.pre.store
           /\ backups = last.pre.backups
           /\ envFiles = last.pre.env

====
